---- MODULE Spec2Model ----
(***************************************************************************)
(* LogBot: the log-line parser (LogParser, normalizeLogLevel), the         *)
(* query-language parser (KQLParser) and the search index (LogSearchIndex),*)
(* modelled from the TypeScript source.                                    *)
(*                                                                         *)
(* TEXT.  A JavaScript string is modelled as a sequence of atoms.  An atom *)
(* is a TLA+ string standing for a run of characters that the regular      *)
(* expressions of the source never split: one whitespace character, one    *)
(* punctuation character, a maximal run of word characters [A-Za-z0-9_]    *)
(* (a "word"), a date-time, a fraction, a zone designator.  Concatenating  *)
(* the atoms of a text gives the string it stands for.  A text is well     *)
(* formed (WellFormed) when that reading is unambiguous.                   *)
(*                                                                         *)
(* TIME.  TLC integers are 32 bits wide and the source compares epoch      *)
(* values with 1e12, so every number that stands for a time is written in  *)
(* units of 10^6: the literal 1700000000 has value 1700, the instant       *)
(* 1 700 000 000 000 ms is 1700000.  All the times of the model are        *)
(* multiples of 10^6, on which this arithmetic is exact.                   *)
(***************************************************************************)
EXTENDS Integers, Sequences, FiniteSets, TLC

VARIABLES
    pc,          \* "ready" before the operation of this behaviour, "done" after
    op,          \* the operation applied: parseLine, parseFile, normalize
    options,     \* the ParseOptions handed to new LogParser(options)
    tz,          \* the host's offset from UTC (local = UTC + tz)
    inLine,      \* argument of a direct parseLine call
    inFile,      \* the File handed to parseFile: [readable, text]
    inLevel,     \* argument of normalizeLogLevel
    errors,      \* LogParser.errors
    lineResult,  \* what parseLine did: [kind, entry, error]
    fileResult,  \* the ParsedLog returned by parseFile
    levelOut,    \* what normalizeLogLevel returned
    kqlPc,       \* KQLParser.parse: "idle", "tokenize", "parse", "done"
    query,       \* argument of KQLParser.parse
    qi,          \* the index i of tokenize, counted in atoms from 1
    tokens,      \* KQLParser.tokens
    position,    \* KQLParser.position, counted from 1
    filters,     \* the filters of parse
    textParts,   \* the textParts of parse
    kqlResult,   \* what KQLParser.parse returned: [filters, text]
    lenientDates,\* does the engine's Date accept text that is not a plain date?
    indexPc,     \* LogSearchIndex: "idle", "ready", then the last call made
    entries,     \* LogSearchIndex.entries: the values of the Map, in insertion order
    searchQuery, \* argument of the last search call
    searchResult,\* what the last search call resolved with: [entries, total]
    matchPc,     \* matchesFilter: "idle", "ready", "done"
    matchEntry,  \* the entry argument of matchesFilter
    matchFilter, \* the filter argument of matchesFilter
    matchResult, \* what matchesFilter returned
    miniSearch,  \* LogSearchIndex.miniSearch: the documents it indexes, in the order added
    fieldStats,  \* LogSearchIndex.fieldStats: one [field, cardinality] for each key
    rejected,    \* did the last call on the index raise to its caller?
    handed,      \* how many records addEntries has been handed so far
    removedIds,  \* the ids removeEntries has been handed so far
    now,         \* the last reading of Date.now() made by generateId
    workerPc,    \* ParserWorker.parseFile: "idle", "reading", "resolved", "rejected"
    unread,      \* the part of the file its stream has not delivered yet
    buffer,      \* the buffer of parseFile: the line read in part
    workerLog,   \* entries, errors, totalLines and lineNumber of parseFile
    loads,       \* FileLoader: where each run of processFiles / loadDemoData stands
    isIndexing,  \* the store's isIndexing
    indexingProgress, \* the store's indexingProgress
    viewQuery,   \* the store's query, as Discover reads it: [text, filters]
    storedResults, \* the store's searchResults: which object it is (0 is null), and
                 \* has it some entries?
    effectDeps,  \* the query and searchResults the last run of the effect was made for
    timer,       \* is a timeout of the effect pending?
    isSearching, \* the store's isSearching
    inFlight,    \* performSearch calls that are awaiting
    searches     \* how many searches Discover has begun

parserVars == <<pc, op, options, tz, inLine, inFile, inLevel, errors,
                lineResult, fileResult, levelOut>>

kqlVars == <<kqlPc, query, qi, tokens, position, filters, textParts, kqlResult,
             lenientDates>>

indexVars == <<indexPc, entries, searchQuery, searchResult,
               matchPc, matchEntry, matchFilter, matchResult>>

storeVars == <<miniSearch, fieldStats, rejected, handed, removedIds, now>>

workerVars == <<workerPc, unread, buffer, workerLog>>

loaderVars == <<loads, isIndexing, indexingProgress>>

viewVars == <<viewQuery, storedResults, effectDeps, timer, isSearching, inFlight, searches>>

appVars == <<workerVars, loaderVars, viewVars>>

vars == <<parserVars, kqlVars, indexVars, storeVars, appVars>>

NoKqlResult == [filters |-> <<>>, text |-> <<>>]

\* No KQLParser.parse call in this behaviour
KqlIdle ==
    /\ kqlPc = "idle"
    /\ query = <<>>
    /\ qi = 1
    /\ tokens = <<>>
    /\ position = 1
    /\ filters = <<>>
    /\ textParts = <<>>
    /\ kqlResult = NoKqlResult
    /\ lenientDates = FALSE

NoSearchQuery == [text |-> <<>>, filters |-> <<>>, timeRange |-> [from |-> 0, to |-> 0]]
NoSearchResult == [entries |-> <<>>, total |-> 0]
NoMatchFilter == [field |-> <<>>, operator |-> "", value |-> <<>>, negate |-> FALSE]

\* No search call yet
SearchIdle ==
    /\ searchQuery = NoSearchQuery
    /\ searchResult = NoSearchResult

\* No matchesFilter call on its own in this behaviour
MatchIdle ==
    /\ matchPc = "idle"
    /\ matchEntry = <<>>
    /\ matchFilter = NoMatchFilter
    /\ matchResult = FALSE

\* The other members of a LogSearchIndex just constructed
StoreIdle ==
    /\ miniSearch = <<>>
    /\ fieldStats = {}
    /\ rejected = FALSE
    /\ handed = 0
    /\ removedIds = {}
    /\ now = 0

\* No LogSearchIndex in this behaviour
IndexIdle ==
    /\ indexPc = "idle"
    /\ entries = <<>>
    /\ SearchIdle
    /\ MatchIdle
    /\ StoreIdle

NoWorkerLog == [entries |-> <<>>, errors |-> <<>>, totalLines |-> 0, lineNumber |-> 1]

\* No ParserWorker.parseFile call in this behaviour
WorkerIdle ==
    /\ workerPc = "idle"
    /\ unread = <<>>
    /\ buffer = <<>>
    /\ workerLog = NoWorkerLog

\* No FileLoader in this behaviour
LoaderIdle ==
    /\ loads = <<>>
    /\ isIndexing = FALSE
    /\ indexingProgress = 0

NoViewQuery == [text |-> <<>>, filters |-> <<>>]

\* searchResults is null
NoResults == [id |-> 0, some |-> FALSE]

\* No Discover view in this behaviour
ViewIdle ==
    /\ viewQuery = NoViewQuery
    /\ storedResults = NoResults
    /\ effectDeps = [query |-> NoViewQuery, results |-> NoResults]
    /\ timer = FALSE
    /\ isSearching = FALSE
    /\ inFlight = 0
    /\ searches = 0

\* None of the components around the parser and the index in this behaviour
AppIdle == WorkerIdle /\ LoaderIdle /\ ViewIdle

-----------------------------------------------------------------------------
(* Bounds of the model *)

MaxTextLen == 3      \* free-text lines: every well-formed text of up to this many atoms
MaxMembers == 2      \* structured lines: objects of up to this many members
MaxLines == 2        \* files of up to this many lines
NowInstant == 1800000   \* what new Date() returns during the behaviour

-----------------------------------------------------------------------------
(* Atoms *)

Whitespace == {" ", "\t", "\r", "\n"}
LineTerminators == {"\r", "\n"}
DateTimes == {"2023-11-14T22:13:20", "2023-11-26 12:00:00"}
Fracs == {".000"}
Zones == {"Z", "-02:30"}
NumLits == {"0", "1700000000", "999000000000", "1000000000000", "1700000000000"}
LevelWords == {"ERROR", "error", "WARNING", "Warning", "warn", "WARN", "CRITICAL",
               "Critical", "INFO", "info", "debug", "DEBUG", "TRACE", "FATAL", "fatal"}
KeyWords == {"timestamp", "ts", "time", "datetime", "level", "severity", "priority",
             "loglevel", "message", "msg", "text", "content", "description", "source",
             "logger", "service", "app", "component", "host", "hostname", "user"}
OtherWords == {"boom", "failed", "ERRORS", "INFOS", "started", "true", "false", "null"}
Words == LevelWords \cup KeyWords \cup OtherWords \cup NumLits
Punct == {"{", "}", "[", "]", ":", ",", "-", "=", "\"", "@timestamp"}
Atoms == Whitespace \cup DateTimes \cup Fracs \cup Zones \cup Words \cup Punct

\* Does the atom start / end with a word character?
FirstIsWord(a) == a \in Words \cup DateTimes \cup {"Z"}
LastIsWord(a) == a \in Words \cup DateTimes \cup Fracs \cup Zones \cup {"@timestamp"}

\* The atoms of a text read as exactly one string: words are maximal, and a
\* fraction or zone designator only follows a date-time.
WellFormed(s) ==
    /\ \A i \in 1..Len(s) : s[i] \in Atoms
    /\ \A i \in 1..(Len(s) - 1) : ~(LastIsWord(s[i]) /\ FirstIsWord(s[i + 1]))
    /\ \A i \in 1..Len(s) :
          /\ s[i] \in Fracs => (i > 1 /\ s[i - 1] \in DateTimes)
          /\ s[i] \in Zones => (i > 1 /\ s[i - 1] \in DateTimes \cup Fracs)

Drop(s, n) == SubSeq(s, n + 1, Len(s))

\* Number of leading whitespace atoms (a greedy \s*).
WsLen(s) ==
    IF \A i \in 1..Len(s) : s[i] \in Whitespace THEN Len(s)
    ELSE (CHOOSE i \in 1..Len(s) :
             s[i] \notin Whitespace /\ \A j \in 1..(i - 1) : s[j] \in Whitespace) - 1

SkipWs(s) == Drop(s, WsLen(s))

\* String.prototype.trim
Trim(s) ==
    IF \A i \in 1..Len(s) : s[i] \in Whitespace THEN <<>>
    ELSE LET last == CHOOSE i \in 1..Len(s) :
                        s[i] \notin Whitespace /\ \A j \in (i + 1)..Len(s) : s[j] \in Whitespace
         IN SubSeq(s, WsLen(s) + 1, last)

\* String.prototype.toUpperCase, atom by atom
UpperAtom(a) ==
    CASE a \in {"error", "ERROR"} -> "ERROR"
      [] a \in {"Warning", "WARNING"} -> "WARNING"
      [] a \in {"warn", "WARN"} -> "WARN"
      [] a \in {"Critical", "CRITICAL"} -> "CRITICAL"
      [] a \in {"info", "INFO"} -> "INFO"
      [] a \in {"debug", "DEBUG"} -> "DEBUG"
      [] a \in {"fatal", "FATAL"} -> "FATAL"
      [] a = "boom" -> "BOOM"
      [] a = "failed" -> "FAILED"
      [] a = "started" -> "STARTED"
      [] a = "level" -> "LEVEL"
      [] a = "loglevel" -> "LOGLEVEL"
      [] OTHER -> a

ToUpperCase(s) == [i \in 1..Len(s) |-> UpperAtom(s[i])]

-----------------------------------------------------------------------------
(* normalizeLogLevel *)

LogLevels == {"TRACE", "DEBUG", "INFO", "WARN", "ERROR", "FATAL"}

normalizeLogLevel_default(level) ==
    LET normalized == ToUpperCase(level)
    IN CASE normalized = <<"WARNING">> -> "WARN"
         [] Len(normalized) = 1 -> normalized[1]
         [] OTHER -> "INFO"

\* normalizeLogLevel(level: string), for a string argument
normalizeLogLevel(level) ==
    LET normalized == ToUpperCase(level)
    IN CASE normalized = <<"WARNING">> -> "WARN"
         [] normalized \in {<<l>> : l \in LogLevels} -> normalized[1]
         [] OTHER -> "INFO"

-----------------------------------------------------------------------------
(* JavaScript values as JSON.parse builds them.  s is the string of a      *)
(* string value and the literal text of any other value; n is the value of *)
(* a number, in units of 10^6.                                             *)

NumVal(lit) ==
    CASE lit = "0" -> 0
      [] lit = "1700000000" -> 1700
      [] lit = "999000000000" -> 999000
      [] lit = "1000000000000" -> 1000000
      [] lit = "1700000000000" -> 1700000

DigitCount(lit) ==
    CASE lit = "0" -> 1
      [] lit = "1700000000" -> 10
      [] lit = "999000000000" -> 12
      [] lit = "1000000000000" -> 13
      [] lit = "1700000000000" -> 13

StrV(s) == [t |-> "str", s |-> s, n |-> 0]
NumV(lit) == [t |-> "num", s |-> <<lit>>, n |-> NumVal(lit)]
NegV(lit) == [t |-> "num", s |-> <<"-", lit>>, n |-> 0 - NumVal(lit)]
BoolV(b) == [t |-> "bool", s |-> <<IF b THEN "true" ELSE "false">>, n |-> IF b THEN 1 ELSE 0]
NullV == [t |-> "null", s |-> <<"null">>, n |-> 0]
Undefined == [t |-> "undefined", s |-> <<>>, n |-> 0]

\* ToBoolean
Truthy(v) ==
    CASE v.t = "str" -> v.s # <<>>
      [] v.t = "num" -> v.n # 0
      [] v.t = "bool" -> v.n = 1
      [] OTHER -> FALSE

\* a || b
OrElse(a, b) == IF Truthy(a) THEN a ELSE b

\* An object is the sequence of its members [k, v] in property order.
Has(obj, key) == \E i \in 1..Len(obj) : obj[i].k = key
Get(obj, key) ==
    IF Has(obj, key) THEN obj[CHOOSE i \in 1..Len(obj) : obj[i].k = key].v ELSE Undefined
Put(obj, key, v) ==
    IF Has(obj, key)
    THEN [i \in 1..Len(obj) |-> IF obj[i].k = key THEN [k |-> key, v |-> v] ELSE obj[i]]
    ELSE Append(obj, [k |-> key, v |-> v])
RECURSIVE Delete(_, _)
Delete(obj, key) ==
    IF obj = <<>> THEN <<>>
    ELSE IF obj[1].k = key THEN Delete(Tail(obj), key)
    ELSE <<obj[1]>> \o Delete(Tail(obj), key)
Keys(obj) == {obj[i].k : i \in 1..Len(obj)}

-----------------------------------------------------------------------------
(* JSON.parse and JSON.stringify, on atoms.  Only the grammar the alphabet  *)
(* can spell is modelled: an object of string-keyed members whose values    *)
(* are strings, integers, true, false or null, with JSON whitespace around  *)
(* every token.  A string literal runs to the next quote (the alphabet has  *)
(* no backslash) and may not hold a raw control character.                  *)

JsonFail == [ok |-> FALSE, value |-> <<>>, next |-> 0]

SkipWsAt(s, i) == i + WsLen(Drop(s, i - 1))

ParseString(s, i) ==
    IF i > Len(s) \/ s[i] # "\"" THEN JsonFail
    ELSE IF ~\E j \in (i + 1)..Len(s) : s[j] = "\"" THEN JsonFail
    ELSE LET j == CHOOSE j \in (i + 1)..Len(s) :
                      s[j] = "\"" /\ \A k \in (i + 1)..(j - 1) : s[k] # "\""
         IN IF \E k \in (i + 1)..(j - 1) : s[k] \in {"\t", "\r", "\n"} THEN JsonFail
            ELSE [ok |-> TRUE, value |-> SubSeq(s, i + 1, j - 1), next |-> j + 1]

ParseValue(s, i) ==
    IF i > Len(s) THEN JsonFail
    ELSE IF s[i] = "\""
         THEN LET r == ParseString(s, i)
              IN IF r.ok THEN [ok |-> TRUE, value |-> StrV(r.value), next |-> r.next]
                 ELSE JsonFail
    ELSE IF s[i] \in NumLits THEN [ok |-> TRUE, value |-> NumV(s[i]), next |-> i + 1]
    ELSE IF s[i] = "-" /\ i < Len(s) /\ s[i + 1] \in NumLits
         THEN [ok |-> TRUE, value |-> NegV(s[i + 1]), next |-> i + 2]
    ELSE IF s[i] = "true" THEN [ok |-> TRUE, value |-> BoolV(TRUE), next |-> i + 1]
    ELSE IF s[i] = "false" THEN [ok |-> TRUE, value |-> BoolV(FALSE), next |-> i + 1]
    ELSE IF s[i] = "null" THEN [ok |-> TRUE, value |-> NullV, next |-> i + 1]
    ELSE JsonFail

RECURSIVE ParseMembers(_, _, _)
ParseMembers(s, i, acc) ==
    LET key == ParseString(s, i)
    IN IF ~key.ok THEN JsonFail
       ELSE LET c == SkipWsAt(s, key.next)
            IN IF c > Len(s) \/ s[c] # ":" THEN JsonFail
               ELSE LET val == ParseValue(s, SkipWsAt(s, c + 1))
                    IN IF ~val.ok THEN JsonFail
                       ELSE LET e == SkipWsAt(s, val.next)
                                acc2 == Put(acc, key.value, val.value)
                            IN IF e > Len(s) THEN JsonFail
                               ELSE IF s[e] = "}"
                                    THEN IF SkipWsAt(s, e + 1) > Len(s)
                                         THEN [ok |-> TRUE, value |-> acc2, next |-> e + 1]
                                         ELSE JsonFail
                               ELSE IF s[e] = ","
                                    THEN ParseMembers(s, SkipWsAt(s, e + 1), acc2)
                               ELSE JsonFail

\* JSON.parse(line), for a line that starts with "{" once trimmed (the only
\* lines parseJsonLine is given).
JSONparse(line) ==
    LET i == SkipWsAt(line, 1)
    IN IF i > Len(line) \/ line[i] # "{" THEN JsonFail
       ELSE LET j == SkipWsAt(line, i + 1)
            IN IF j <= Len(line) /\ line[j] = "}"
               THEN IF SkipWsAt(line, j + 1) > Len(line)
                    THEN [ok |-> TRUE, value |-> <<>>, next |-> j + 1]
                    ELSE JsonFail
               ELSE ParseMembers(line, j, <<>>)

ValueText(v) == IF v.t = "str" THEN <<"\"">> \o v.s \o <<"\"">> ELSE v.s

RECURSIVE MembersText(_)
MembersText(obj) ==
    IF obj = <<>> THEN <<>>
    ELSE <<"\"">> \o obj[1].k \o <<"\"", ":">> \o ValueText(obj[1].v)
         \o (IF Len(obj) = 1 THEN <<>> ELSE <<",">> \o MembersText(Tail(obj)))

JSONstringify(obj) == <<"{">> \o MembersText(obj) \o <<"}">>

-----------------------------------------------------------------------------
(* Date *)

Invalid == 0 - 1

DtUtc(dt) ==
    CASE dt = "2023-11-14T22:13:20" -> 1700000
      [] dt = "2023-11-26 12:00:00" -> 1701000

ZoneOffset(z) ==
    CASE z = "Z" -> 0
      [] z = "-02:30" -> 0 - 9

\* Length of a leading date-time with optional fraction and, if zone, optional
\* zone designator: \d{4}-\d{2}-\d{2}[T\s]\d{2}:\d{2}:\d{2}(?:\.\d+)?(?:Z|[+\-]\d{2}:?\d{2})?
\* zones is the set of designators the pattern accepts.
TsLen(s, zones) ==
    IF Len(s) = 0 \/ s[1] \notin DateTimes THEN 0
    ELSE LET f == IF Len(s) >= 2 /\ s[2] \in Fracs THEN 1 ELSE 0
             z == IF Len(s) >= 2 + f /\ s[2 + f] \in zones THEN 1 ELSE 0
         IN 1 + f + z

\* new Date(string).getTime(): a date-time with a zone designator is that
\* instant, one without is local time; no other string of the model is a
\* date (a run of 10 to 13 digits is not: it gives an Invalid Date).
DateParse(s) ==
    IF TsLen(s, Zones) = Len(s) /\ Len(s) > 0
    THEN IF s[Len(s)] \in Zones THEN DtUtc(s[1]) - ZoneOffset(s[Len(s)])
         ELSE DtUtc(s[1]) - tz
    ELSE Invalid

-----------------------------------------------------------------------------
(* LogParser: timestamps *)

EpochMsThreshold == 1000000      \* 1e12, in units of 10^6

\* parseTimestamp(value); value is never a Date in the calls the parser makes
parseTimestamp(value) ==
    CASE value.t = "num" ->
            IF value.n < EpochMsThreshold THEN value.n * 1000 ELSE value.n
      [] value.t = "str" ->
            IF DateParse(value.s) # Invalid THEN DateParse(value.s) ELSE NowInstant
      [] OTHER -> NowInstant

\* text.match(TIMESTAMP_PATTERNS[i])[1], or <<>> when the pattern does not
\* match.  Every pattern is anchored at the start of the text.  Patterns 3 to
\* 5 (slash-delimited dates, syslog dates) match no text of the alphabet.
TimestampPattern(i, text) ==
    CASE i = 1 -> SubSeq(text, 1, TsLen(text, Zones))
      [] i = 2 -> SubSeq(text, 1, TsLen(text, {"Z"}))
      [] i = 6 -> IF Len(text) > 0 /\ text[1] \in NumLits /\ DigitCount(text[1]) >= 10
                  THEN <<text[1]>> ELSE <<>>
      [] OTHER -> <<>>

looksLikeTimestamp(value) == \E i \in 1..6 : TimestampPattern(i, value) # <<>>

\* extractTimestampFromText(text): [found, t]; found = FALSE is the null result
extractTimestampFromText(text) ==
    IF \E i \in 1..6 : TimestampPattern(i, text) # <<>>
    THEN LET i == CHOOSE i \in 1..6 :
                      /\ TimestampPattern(i, text) # <<>>
                      /\ \A j \in 1..(i - 1) : TimestampPattern(j, text) = <<>>
         IN [found |-> TRUE, t |-> parseTimestamp(StrV(TimestampPattern(i, text)))]
    ELSE [found |-> FALSE, t |-> 0]

-----------------------------------------------------------------------------
(* LogParser: levels *)

Level7 == LogLevels \cup {"WARNING"}
Level8 == LogLevels \cup {"WARNING", "CRITICAL"}

\* The atom is, whatever its letter case, one of the level keywords of set.
IsLevelWord(a, set) == a \in Words /\ UpperAtom(a) \in set

\* \b on both sides of atom i
Bounded(s, i) ==
    /\ i = 1 \/ ~LastIsWord(s[i - 1])
    /\ i = Len(s) \/ ~FirstIsWord(s[i + 1])

\* The level keyword an atom starts with, in upper case, or "" (the first
\* alternative of TRACE|DEBUG|INFO|WARN|WARNING|ERROR|FATAL|CRITICAL that matches)
LevelPrefix(a) ==
    CASE a \in {"ERRORS"} -> "ERROR"
      [] a \in {"INFOS"} -> "INFO"
      [] a \in {"WARNING", "Warning"} -> "WARN"
      [] IsLevelWord(a, Level8) -> UpperAtom(a)
      [] OTHER -> ""

EndsWithLevel(a) == a \in {"level", "loglevel"}

Leftmost(S) == CHOOSE i \in S : \A j \in S : i <= j

\* text.match(LEVEL_PATTERNS[i])[1], or <<>> when the pattern does not match
LevelPattern(i, text) ==
    LET hits ==
          CASE i = 1 -> {k \in 1..Len(text) :
                            IsLevelWord(text[k], Level8) /\ Bounded(text, k)}
            [] i = 2 -> {k \in 1..(Len(text) - 2) :
                            /\ text[k] = "["
                            /\ IsLevelWord(text[k + 1], Level8)
                            /\ text[k + 2] = "]"}
            [] i = 3 -> {k \in 1..(Len(text) - 1) :
                            /\ EndsWithLevel(text[k])
                            /\ text[k + 1] \in {"=", ":"}
                            /\ SkipWsAt(text, k + 2) <= Len(text)
                            /\ LevelPrefix(text[SkipWsAt(text, k + 2)]) # ""}
    IN IF hits = {} THEN <<>>
       ELSE CASE i = 1 -> <<text[Leftmost(hits)]>>
              [] i = 2 -> <<text[Leftmost(hits) + 1]>>
              [] i = 3 -> <<LevelPrefix(text[SkipWsAt(text, Leftmost(hits) + 2)])>>

\* The keywords of the fallback that the lower-cased atom includes
KeywordsIn(a) ==
    CASE a \in {"error", "ERROR", "ERRORS"} -> {"error"}
      [] a \in {"Warning", "WARNING"} -> {"warn", "warning"}
      [] a \in {"warn", "WARN"} -> {"warn"}
      [] a \in {"Critical", "CRITICAL"} -> {"critical"}
      [] a \in {"fatal", "FATAL"} -> {"fatal"}
      [] a \in {"debug", "DEBUG"} -> {"debug"}
      [] a \in {"TRACE"} -> {"trace"}
      [] a \in {"failed"} -> {"fail"}
      [] OTHER -> {}

\* text.toLowerCase().includes(kw)
Includes(text, kw) == \E i \in 1..Len(text) : kw \in KeywordsIn(text[i])

detectLevelInText(text) ==
    IF \E i \in 1..3 : LevelPattern(i, text) # <<>>
    THEN LET i == CHOOSE i \in 1..3 :
                      /\ LevelPattern(i, text) # <<>>
                      /\ \A j \in 1..(i - 1) : LevelPattern(j, text) = <<>>
         IN normalizeLogLevel(LevelPattern(i, text))
    ELSE IF Includes(text, "fatal") \/ Includes(text, "critical") THEN "FATAL"
    ELSE IF Includes(text, "error") \/ Includes(text, "exception") \/ Includes(text, "fail")
         THEN "ERROR"
    ELSE IF Includes(text, "warn") \/ Includes(text, "warning") THEN "WARN"
    ELSE IF Includes(text, "debug") THEN "DEBUG"
    ELSE IF Includes(text, "trace") THEN "TRACE"
    ELSE "INFO"

-----------------------------------------------------------------------------
(* LogParser: structured lines *)

timestampFields == <<"@timestamp", "timestamp", "ts", "time", "datetime">>
levelFields_reordered == <<"severity", "level", "priority", "loglevel">>

levelFields == <<"level", "severity", "priority", "loglevel">>
messageFields == <<"message", "msg", "text", "content", "description">>
deletedFields == <<"timestamp", "ts", "time", "@timestamp", "level", "severity",
                   "message", "msg">>

\* json[field]
Field(json, field) == Get(json, <<field>>)

\* if (json[field]) and if (json[field] && typeof json[field] === 'string')
Present(json, field) == Truthy(Field(json, field))
PresentString(json, field) == Truthy(Field(json, field)) /\ Field(json, field).t = "str"

\* Index of the first field of the list whose value is truthy, 0 when none is
FirstPresent(json, fields) ==
    IF \E i \in 1..Len(fields) : Present(json, fields[i])
    THEN CHOOSE i \in 1..Len(fields) :
             Present(json, fields[i]) /\ \A j \in 1..(i - 1) : ~Present(json, fields[j])
    ELSE 0

FirstPresentString(json, fields) ==
    IF \E i \in 1..Len(fields) : PresentString(json, fields[i])
    THEN CHOOSE i \in 1..Len(fields) :
             /\ PresentString(json, fields[i])
             /\ \A j \in 1..(i - 1) : ~PresentString(json, fields[j])
    ELSE 0

extractTimestamp(json) ==
    LET i == FirstPresent(json, timestampFields)
    IN IF i > 0 THEN parseTimestamp(Field(json, timestampFields[i])) ELSE NowInstant

\* extractLevel(json): normalizeLogLevel calls level.toUpperCase(), which
\* raises a TypeError when the value is truthy and not a string.
extractLevel(json) ==
    LET i == FirstPresent(json, levelFields)
    IN IF i > 0
       THEN IF Field(json, levelFields[i]).t = "str"
            THEN [threw |-> FALSE, level |-> normalizeLogLevel(Field(json, levelFields[i]).s)]
            ELSE [threw |-> TRUE, level |-> "INFO"]
       ELSE [threw |-> FALSE, level |-> detectLevelInText(JSONstringify(json))]

extractMessage(json) ==
    LET i == FirstPresentString(json, messageFields)
    IN IF i > 0 THEN Field(json, messageFields[i]).s ELSE JSONstringify(json)

RECURSIVE DeleteAll(_, _)
DeleteAll(obj, fields) ==
    IF fields = <<>> THEN obj ELSE DeleteAll(Delete(obj, <<Head(fields)>>), Tail(fields))

\* const fields = { ...json }; delete fields.timestamp; ... delete fields.msg;
extractFields(json) == DeleteAll(json, deletedFields)

NoEntry == [timestamp |-> 0, level |-> "INFO", message |-> <<>>, file |-> <<>>,
            raw |-> <<>>, hasFields |-> FALSE, fields |-> <<>>, source |-> Undefined,
            service |-> Undefined, host |-> Undefined, lineNumber |-> 0]

Returned(entry) == [kind |-> "entry", entry |-> entry, error |-> ""]
ReturnedNull == [kind |-> "null", entry |-> NoEntry, error |-> ""]
Threw(error) == [kind |-> "throw", entry |-> NoEntry, error |-> error]

\* The body of parseJsonLine once JSON.parse has returned json.  The record's
\* id is left out: generateId draws it at random.
JsonEntry(json, line, fileName, lineNumber) ==
    IF extractLevel(json).threw THEN Threw("JSON parsing failed")
    ELSE Returned([timestamp |-> extractTimestamp(json),
                   level |-> extractLevel(json).level,
                   message |-> extractMessage(json),
                   file |-> fileName,
                   raw |-> line,
                   hasFields |-> TRUE,
                   fields |-> extractFields(json),
                   source |-> OrElse(OrElse(Field(json, "source"), Field(json, "logger")),
                                     StrV(fileName)),
                   service |-> OrElse(OrElse(Field(json, "service"), Field(json, "app")),
                                      Field(json, "component")),
                   host |-> OrElse(Field(json, "host"), Field(json, "hostname")),
                   lineNumber |-> lineNumber])

\* parseJsonLine(line, fileName, lineNumber): whatever is raised inside the
\* try block is raised again as Error("JSON parsing failed: ...")
JsonOutcome(parsed, line, fileName, lineNumber) ==
    IF ~parsed.ok THEN Threw("JSON parsing failed")
    ELSE JsonEntry(parsed.value, line, fileName, lineNumber)

parseJsonLine(line, fileName, lineNumber) ==
    JsonOutcome(JSONparse(line), line, fileName, lineNumber)

-----------------------------------------------------------------------------
(* LogParser: free-text lines *)

NoMatch == [ok |-> FALSE, g |-> <<>>]
Match(groups) == [ok |-> TRUE, g |-> groups]

\* \s*(.*)$ at s: "." matches no line terminator, so the pattern fails when
\* one is left after the whitespace.
DotOk(s) == \A i \in 1..Len(SkipWs(s)) : SkipWs(s)[i] \notin LineTerminators

\* line.match(patterns[i]): the groups of the match (match.length is one more)
LinePattern(i, line) ==
    CASE i = 1 ->     \* ^(ts)\s+(LEVEL)\b\s*(.*)$
            LET n == TsLen(line, Zones)
                w == WsLen(Drop(line, n))
                l == Drop(line, n + w)
            IN IF /\ n > 0 /\ w > 0 /\ Len(l) > 0
                  /\ IsLevelWord(l[1], Level7)
                  /\ (Len(l) = 1 \/ ~FirstIsWord(l[2]))
                  /\ DotOk(Tail(l))
               THEN Match(<<SubSeq(line, 1, n), <<l[1]>>, SkipWs(Tail(l))>>)
               ELSE NoMatch
      [] i = 2 ->     \* ^(ts without zone)\s*\[(LEVEL)\]\s*(.*)$
            LET n == TsLen(line, {})
                r == SkipWs(Drop(line, n))
            IN IF /\ n > 0 /\ Len(r) >= 3
                  /\ r[1] = "[" /\ IsLevelWord(r[2], Level7) /\ r[3] = "]"
                  /\ DotOk(Drop(r, 3))
               THEN Match(<<SubSeq(line, 1, n), <<r[2]>>, SkipWs(Drop(r, 3))>>)
               ELSE NoMatch
      [] i = 3 ->     \* ^(LEVEL)\s+(ts without zone)\s*(.*)$
            LET w == IF Len(line) > 0 THEN WsLen(Tail(line)) ELSE 0
                r == Drop(line, 1 + w)
                n == TsLen(r, {})
            IN IF /\ Len(line) > 0 /\ IsLevelWord(line[1], Level7)
                  /\ w > 0 /\ n > 0
                  /\ DotOk(Drop(r, n))
               THEN Match(<<<<line[1]>>, SubSeq(r, 1, n), SkipWs(Drop(r, n))>>)
               ELSE NoMatch
      [] i = 4 ->     \* ^(LEVEL)\s*[:\-\s]\s*(.*)$
            LET r == IF Len(line) > 0 THEN Tail(line) ELSE <<>>
                w == WsLen(r)
                d == IF Len(r) > w /\ r[w + 1] \in {":", "-"} THEN 1 ELSE 0
                rest == Drop(r, w + d)
            IN IF /\ Len(line) > 0 /\ IsLevelWord(line[1], Level7)
                  /\ w + d > 0
                  /\ DotOk(rest)
               THEN Match(<<<<line[1]>>, SkipWs(rest)>>)
               ELSE NoMatch

TextEntry(timestamp, level, message, line, fileName, lineNumber) ==
    [timestamp |-> timestamp, level |-> level, message |-> message, file |-> fileName,
     raw |-> line, hasFields |-> FALSE, fields |-> <<>>, source |-> StrV(fileName),
     service |-> Undefined, host |-> Undefined, lineNumber |-> lineNumber]

\* The fallback of parseTextLine, after the loop
TextFallback(line, fileName, lineNumber) ==
    LET found == extractTimestampFromText(line)
    IN TextEntry(IF found.found THEN found.t ELSE NowInstant,
                 detectLevelInText(line), line, line, fileName, lineNumber)

\* The loop of parseTextLine from pattern i on
RECURSIVE TextCascade(_, _, _, _)
TextCascade(i, line, fileName, lineNumber) ==
    IF i > 4 THEN TextFallback(line, fileName, lineNumber)
    ELSE LET m == LinePattern(i, line)
         IN IF ~m.ok THEN TextCascade(i + 1, line, fileName, lineNumber)
            ELSE IF Len(m.g) = 3 /\ looksLikeTimestamp(m.g[1])
                 THEN TextEntry(parseTimestamp(StrV(m.g[1])), normalizeLogLevel(m.g[2]),
                                Trim(m.g[3]), line, fileName, lineNumber)
            ELSE IF Len(m.g) = 3 /\ looksLikeTimestamp(m.g[2])
                 THEN TextEntry(parseTimestamp(StrV(m.g[2])), normalizeLogLevel(m.g[1]),
                                Trim(m.g[3]), line, fileName, lineNumber)
            ELSE IF Len(m.g) = 2
                 THEN TextEntry(NowInstant, normalizeLogLevel(m.g[1]),
                                Trim(m.g[2]), line, fileName, lineNumber)
            ELSE TextCascade(i + 1, line, fileName, lineNumber)

\* parseTextLine without its fallback: no record when no pattern matches
parseTextLine_noFallback(line, fileName, lineNumber) ==
    IF \E i \in 1..4 : LinePattern(i, line).ok
    THEN Returned(TextCascade(1, line, fileName, lineNumber))
    ELSE ReturnedNull

parseTextLine(line, fileName, lineNumber) ==
    Returned(TextCascade(1, line, fileName, lineNumber))

-----------------------------------------------------------------------------
(* LogParser: parseLine, parseFile *)

DefaultMaxErrors == 1000
FallbackMaxErrors == 1000

\* this.options after new LogParser(arg); a field the argument leaves out
\* (has... = FALSE) keeps its default
Constructor(arg) ==
    [enableJsonDetection |-> IF arg.hasJson THEN arg.json ELSE TRUE,
     maxErrors |-> IF arg.hasMax THEN arg.max ELSE DefaultMaxErrors]

looksLikeJson(line) ==
    /\ Trim(line) # <<>>
    /\ Trim(line)[1] = "{"
    /\ Trim(line)[Len(Trim(line))] = "}"

parseLine(opts, line, fileName, lineNumber) ==
    IF Trim(line) = <<>> THEN ReturnedNull
    ELSE IF opts.enableJsonDetection /\ looksLikeJson(line)
         THEN parseJsonLine(line, fileName, lineNumber)
    ELSE parseTextLine(line, fileName, lineNumber)

\* addError: the list after the call
addError(opts, errs, line, content, error) ==
    IF Len(errs) < (IF opts.maxErrors # 0 THEN opts.maxErrors ELSE FallbackMaxErrors)
    THEN Append(errs, [line |-> line, content |-> content, error |-> error])
    ELSE errs

\* text.split('\n')
RECURSIVE Split(_)
Split(text) ==
    IF \A i \in 1..Len(text) : text[i] # "\n" THEN <<text>>
    ELSE LET i == CHOOSE i \in 1..Len(text) :
                      text[i] = "\n" /\ \A j \in 1..(i - 1) : text[j] # "\n"
         IN <<SubSeq(text, 1, i - 1)>> \o Split(Drop(text, i))

\* FileStep falling back to text parsing after recording the error
FileStep_fallback(opts, acc, i, line, r) ==
    IF line = <<>> THEN acc
    ELSE IF r.kind = "entry"
         THEN [entries |-> Append(acc.entries, r.entry), errors |-> acc.errors]
    ELSE IF r.kind = "throw"
         THEN [entries |-> Append(acc.entries, TextFallback(line, <<>>, i)),
               errors |-> addError(opts, acc.errors, i, line, r.error)]
    ELSE acc

\* One turn of the for loop of parseFile: line is lines[i].trim(), r what
\* parseLine did with it, acc the entries and errors gathered so far
FileStep(opts, acc, i, line, r) ==
    IF line = <<>> THEN acc
    ELSE IF r.kind = "entry"
         THEN [entries |-> Append(acc.entries, r.entry), errors |-> acc.errors]
    ELSE IF r.kind = "throw"
         THEN [entries |-> acc.entries,
               errors |-> addError(opts, acc.errors, i, line, r.error)]
    ELSE acc

TrimmedLine(lines, i) == Trim(lines[i])

\* The for loop of parseFile from index i on (1-based)
RECURSIVE FileLoop(_, _, _, _, _)
FileLoop(opts, lines, i, fileName, acc) ==
    IF i > Len(lines) THEN acc
    ELSE FileLoop(opts, lines, i + 1, fileName,
                  FileStep(opts, acc, i, TrimmedLine(lines, i),
                           parseLine(opts, TrimmedLine(lines, i), fileName, i)))

\* parseFile leaving the last line out of totalLines
ReadResult_lastLineLeftOut(opts, lines, fileName, out) ==
    [entries |-> out.entries, errors |-> out.errors,
     totalLines |-> Len(lines) - 1, fileName |-> fileName]

ReadResult(opts, lines, fileName, out) ==
    [entries |-> out.entries, errors |-> out.errors,
     totalLines |-> Len(lines), fileName |-> fileName]

\* parseFile(file): the ParsedLog it returns; errors is this.errors after it
parseFileResult(opts, file) ==
    IF file.readable
    THEN ReadResult(opts, Split(file.text), file.name,
                    FileLoop(opts, Split(file.text), 1, file.name,
                             [entries |-> <<>>, errors |-> <<>>]))
    ELSE [entries |-> <<>>,
          errors |-> addError(opts, <<>>, 0, <<>>, "Failed to read file"),
          totalLines |-> 0, fileName |-> file.name]

-----------------------------------------------------------------------------
(* Inputs of the parser *)

MaxErrorsArg == 2    \* the maxErrors option ranges over 0..MaxErrorsArg, or is left out

FileName == <<"app.log">>
HostZones == {0, 0 - 9}

TextsUpTo(alphabet, n) == UNION {[1..k -> alphabet] : k \in 0..n}

TextAlphabet == {" ", "\r", ":", "[", "]", "{", "}", "ERROR", "warn", "boom",
                 "2023-11-14T22:13:20", "Z", "1700000000"}

ShortLines == {s \in TextsUpTo(TextAlphabet, MaxTextLen) : WellFormed(s)}

Member(key, v) == [k |-> <<key>>, v |-> v]

Members ==
    { Member("timestamp", NumV("1700000000")),
      Member("timestamp", NumV("0")),
      Member("timestamp", StrV(<<"1700000000">>)),
      Member("ts", NumV("1700000000000")),
      Member("time", NumV("999000000000")),
      Member("@timestamp", NumV("1000000000000")),
      Member("datetime", StrV(<<"2023-11-14T22:13:20", "Z">>)),
      Member("level", StrV(<<"error">>)),
      Member("level", StrV(<<>>)),
      Member("level", NumV("1700000000")),
      Member("severity", StrV(<<"Warning">>)),
      Member("priority", StrV(<<"debug">>)),
      Member("loglevel", StrV(<<"FATAL">>)),
      Member("message", StrV(<<"boom">>)),
      Member("message", BoolV(TRUE)),
      Member("msg", StrV(<<"failed">>)),
      Member("text", StrV(<<"started">>)),
      Member("description", StrV(<<"boom", " ", "CRITICAL">>)),
      Member("user", StrV(<<"boom">>)),
      Member("host", NullV) }

JsonLines == {JSONstringify(m) : m \in TextsUpTo(Members, MaxMembers)}

CuratedLines ==
    { <<" ", "{", "\"", "level", "\"", " ", ":", " ", "\"", "warn", "\"", "}", "\r">>,
      <<"{", "boom", "}">>,
      <<"{", "\"", "level", "\"", ":", "}">>,
      <<"{", "\"", "msg", "\"", ":", "\"", "boom", "\"", ",", "}">>,
      <<"{", "\"", "msg", "\"", ":", "\"", "boom", "\t", "boom", "\"", "}">>,
      <<"{", "\"", "ts", "\"", ":", "-", "1700000000", "}">>,
      <<"2023-11-14T22:13:20", "Z", " ", "ERROR", " ", "boom">>,
      <<"2023-11-14T22:13:20", ".000", "Z", " ", "info", " ", "started">>,
      <<"2023-11-14T22:13:20", "-02:30", " ", "boom">>,
      <<"2023-11-26 12:00:00", " ", "[", "warn", "]", " ", "boom">>,
      <<"2023-11-14T22:13:20", ".000", "[", "DEBUG", "]", "boom">>,
      <<"ERROR", " ", "2023-11-14T22:13:20", "Z", " ", "boom">>,
      <<"ERROR", " ", "2023-11-14T22:13:20", "-02:30", " ", "boom">>,
      <<"INFO", ":", " ", "2023-11-14T22:13:20", "Z", " ", "started">>,
      <<"boom", " ", "2023-11-14T22:13:20", "Z", " ", "started">>,
      <<"1700000000000", " ", "boom">>,
      <<"999000000000", " ", "boom">>,
      <<"level", "=", "INFOS", " ", "failed">>,
      <<"\t", "ERROR", ":", " ", "boom", "\r">>,
      <<"FATAL", " ", "-", " ", "boom", "\r", "boom">> }

Lines == ShortLines \cup JsonLines \cup CuratedLines

FileLines ==
    { <<>>,
      <<" ", "\t">>,
      <<"boom">>,
      <<"ERROR", ":", " ", "boom">>,
      <<" ", "warn", " ", "boom", "\r">>,
      <<"2023-11-14T22:13:20", "Z", " ", "ERROR", " ", "boom">>,
      <<"{", "\"", "level", "\"", ":", "\"", "error", "\"", ",",
             "\"", "msg", "\"", ":", "\"", "boom", "\"", "}">>,
      <<" ", "{", "\"", "user", "\"", ":", "\"", "boom", "\"", "}", "\r">>,
      <<"{", "boom", "}">>,
      <<"\t", "{", "\"", "level", "\"", ":", "}", " ">>,
      <<"{", "\"", "level", "\"", ":", "1700000000", "}">> }

RECURSIVE JoinLines(_)
JoinLines(ls) ==
    IF Len(ls) = 0 THEN <<>>
    ELSE IF Len(ls) = 1 THEN ls[1]
    ELSE ls[1] \o <<"\n">> \o JoinLines(Tail(ls))

FileTexts == {JoinLines(ls) : ls \in TextsUpTo(FileLines, MaxLines)}

Files == {[readable |-> TRUE, text |-> t, name |-> FileName] : t \in FileTexts}
         \cup {[readable |-> FALSE, text |-> <<>>, name |-> FileName]}

NoFile == [readable |-> FALSE, text |-> <<>>, name |-> <<>>]

JsonArgs == {[hasJson |-> FALSE, json |-> TRUE], [hasJson |-> TRUE, json |-> FALSE]}
MaxArgs == {[hasMax |-> FALSE, max |-> 0]} \cup {[hasMax |-> TRUE, max |-> m] : m \in 0..MaxErrorsArg}
OptionArgs == {[hasJson |-> j.hasJson, json |-> j.json, hasMax |-> m.hasMax, max |-> m.max] :
                  j \in JsonArgs, m \in MaxArgs}

LevelInputs ==
    {<<a>> : a \in Words} \cup
    { <<>>, <<"ERROR", " ">>, <<" ", "warn">>, <<"boom", " ", "error">>, <<"[", "ERROR", "]">> }

NoLineResult == [kind |-> "none", entry |-> NoEntry, error |-> ""]
NoFileResult == [entries |-> <<>>, errors |-> <<>>, totalLines |-> 0, fileName |-> <<>>]

-----------------------------------------------------------------------------
(* The parser's behaviours: a LogParser is constructed, then one operation  *)
(* is applied to one input.  maxErrors bears on parseFile alone, and is     *)
(* left out of the options where parseLine is called directly.              *)

ParserInit ==
    /\ AppIdle
    /\ pc = "ready"
    /\ errors = <<>>
    /\ lineResult = NoLineResult
    /\ fileResult = NoFileResult
    /\ levelOut = ""
    /\ KqlIdle
    /\ IndexIdle
    /\ \/ /\ op = "parseLine"
          /\ options \in {Constructor(a) : a \in {b \in OptionArgs : ~b.hasMax}}
          /\ tz \in HostZones
          /\ inLine \in Lines
          /\ inFile = NoFile
          /\ inLevel = <<>>
       \/ /\ op = "parseFile"
          /\ options \in {Constructor(a) : a \in OptionArgs}
          /\ tz \in HostZones
          /\ inLine = <<>>
          /\ inFile \in Files
          /\ inLevel = <<>>
       \/ /\ op = "normalize"
          /\ options = Constructor([hasJson |-> FALSE, json |-> TRUE, hasMax |-> FALSE, max |-> 0])
          /\ tz = 0
          /\ inLine = <<>>
          /\ inFile = NoFile
          /\ inLevel \in LevelInputs

\* parser.parseLine(inLine, FileName, 1)
ParseLine ==
    /\ pc = "ready" /\ op = "parseLine"
    /\ lineResult' = parseLine(options, inLine, FileName, 1)
    /\ pc' = "done"
    /\ UNCHANGED <<appVars, op, options, tz, inLine, inFile, inLevel, errors, fileResult, levelOut, kqlVars, indexVars, storeVars>>

\* await parser.parseFile(inFile)
ParseFile ==
    /\ pc = "ready" /\ op = "parseFile"
    /\ fileResult' = parseFileResult(options, inFile)
    /\ errors' = fileResult'.errors
    /\ pc' = "done"
    /\ UNCHANGED <<appVars, op, options, tz, inLine, inFile, inLevel, lineResult, levelOut, kqlVars, indexVars, storeVars>>

\* normalizeLogLevel(inLevel)
Normalize ==
    /\ pc = "ready" /\ op = "normalize"
    /\ levelOut' = normalizeLogLevel(inLevel)
    /\ pc' = "done"
    /\ UNCHANGED <<appVars, op, options, tz, inLine, inFile, inLevel, errors, lineResult, fileResult, kqlVars, indexVars, storeVars>>

ParserNext == ParseLine \/ ParseFile \/ Normalize

ParserSpec == ParserInit /\ [][ParserNext]_vars

-----------------------------------------------------------------------------
(***************************************************************************)
(* KQLParser.  A query is a sequence of atoms: one whitespace character,   *)
(* one of the characters : ( ) < > = " [ ] \, or a maximal run of other    *)
(* characters (a chunk).  The position field of a token is never read and  *)
(* is left out.  A token is [type, value], value a sequence of atoms.      *)
(***************************************************************************)

MaxQueryLen == 3     \* every well-formed query of up to this many atoms
MaxTokens == 8       \* tokenize is followed until it has pushed this many tokens

\* The class [\s:()<>="] that ends a word
WordEnders == Whitespace \cup {":", "(", ")", "<", ">", "=", "\""}
KqlSingles == WordEnders \cup {"[", "]", "\\"}

KqlNumbers == {"42"}
KqlDates == {"2025-10-01"}
KqlMixed == {"db-1"}     \* chunks with a digit that are neither a numeral nor a date

\* /^(AND|OR|NOT)$/ without the i flag
KeywordOf_caseSensitive(a) == IF a \in {"AND", "OR", "NOT"} THEN a ELSE ""

\* /^(AND|OR|NOT)$/i on a chunk, and its toUpperCase()
KeywordOf(a) ==
    CASE a \in {"AND", "and", "And"} -> "AND"
      [] a \in {"OR", "or", "Or"} -> "OR"
      [] a \in {"NOT", "not", "Not"} -> "NOT"
      [] OTHER -> ""

Token(type, value) == [type |-> type, value |-> value]

Min(a, b) == IF a <= b THEN a ELSE b

\* while (i < query.length && query[i] !== '"') { if (query[i] === '\\') i++; i++ }
RECURSIVE QuoteScan(_, _)
QuoteScan(q, i) ==
    IF i > Len(q) \/ q[i] = "\"" THEN i
    ELSE IF q[i] = "\\" THEN QuoteScan(q, i + 2)
    ELSE QuoteScan(q, i + 1)

\* .replace(/\\"/g, '"')
RECURSIVE Unescape(_)
Unescape(s) ==
    IF s = <<>> THEN <<>>
    ELSE IF Len(s) >= 2 /\ s[1] = "\\" /\ s[2] = "\"" THEN <<"\"">> \o Unescape(Drop(s, 2))
    ELSE <<s[1]>> \o Unescape(Drop(s, 1))

\* while (i < query.length && query[i] !== ']') i++
RECURSIVE RangeScan(_, _)
RangeScan(q, i) ==
    IF i > Len(q) \/ q[i] = "]" THEN i ELSE RangeScan(q, i + 1)

\* while (i < query.length && !/[\s:()<>="]/.test(query[i])) i++
RECURSIVE WordScan(_, _)
WordScan(q, i) ==
    IF i > Len(q) \/ q[i] \in WordEnders THEN i ELSE WordScan(q, i + 1)

RECURSIVE findNextNonSpace(_, _)
findNextNonSpace(str, start) ==
    IF start <= Len(str) /\ str[start] \in Whitespace
    THEN findNextNonSpace(str, start + 1)
    ELSE start

\* The token pushed for the word that ends before index e
WordToken(q, word, e) ==
    IF Len(word) = 1 /\ KeywordOf(word[1]) # ""
    THEN Token(KeywordOf(word[1]), <<KeywordOf(word[1])>>)
    ELSE IF findNextNonSpace(q, e) <= Len(q) /\ q[findNextNonSpace(q, e)] = ":"
         THEN Token("FIELD", word)
    ELSE Token("TEXT", word)

Turn(i, push) == [i |-> i, push |-> push]

QuotedTurn(q, i, close) ==
    Turn(close + 1, <<Token("VALUE", Unescape(SubSeq(q, i + 1, Min(close - 1, Len(q)))))>>)

RangeTurn(q, i, close) ==
    Turn(close + 1, <<Token("VALUE", SubSeq(q, i, Min(close, Len(q))))>>)

WordTurn(q, i, e) == Turn(e, <<WordToken(q, SubSeq(q, i, e - 1), e)>>)

\* One turn of the while loop of tokenize at index i <= Len(q): the index
\* after it and the tokens it pushes
TokenizeTurn(q, i) ==
    IF q[i] \in Whitespace THEN Turn(i + 1, <<>>)
    ELSE IF q[i] = "\"" THEN QuotedTurn(q, i, QuoteScan(q, i + 1))
    ELSE IF q[i] = ":" THEN Turn(i + 1, <<Token("OPERATOR", <<":">>)>>)
    ELSE IF q[i] \in {"(", ")"} THEN Turn(i + 1, <<Token("PAREN", <<q[i]>>)>>)
    ELSE IF q[i] = "[" THEN RangeTurn(q, i, RangeScan(q, i))
    ELSE IF q[i] \in {">", "<"}
         THEN IF i + 1 <= Len(q) /\ q[i + 1] = "="
              THEN Turn(i + 2, <<Token("OPERATOR", <<q[i], "=">>)>>)
              ELSE Turn(i + 1, <<Token("OPERATOR", <<q[i]>>)>>)
    ELSE WordTurn(q, i, WordScan(q, i))

\* A coerced value: a number n, the Date that new Date(s) gives, or the string s
NumberValue(n) == [t |-> "num", n |-> n, s |-> <<>>]
DateValue(s) == [t |-> "date", n |-> 0, s |-> s]
StringValue(s) == [t |-> "str", n |-> 0, s |-> s]

\* Number(value) is a finite number: blank text is 0, a numeral its value
IsNumeric(v) == Trim(v) = <<>> \/ (Len(Trim(v)) = 1 /\ Trim(v)[1] \in KqlNumbers)
NumberOf(v) == IF Trim(v) = <<>> THEN 0 ELSE 42

\* new Date(value) is a valid date: always for a plain date, never for text
\* without a digit, and as the engine decides for any other text
IsDate(v) ==
    \/ Len(v) = 1 /\ v[1] \in KqlDates
    \/ lenientDates /\ \E i \in 1..Len(v) : v[i] \in KqlNumbers \cup KqlDates \cup KqlMixed

parseValue(v) ==
    IF IsNumeric(v) THEN NumberValue(NumberOf(v))
    ELSE IF IsDate(v) THEN DateValue(v)
    ELSE StringValue(v)

\* The first match of /\s+TO\s+/i in s: the index of its TO, 0 when none
FirstTO(s) ==
    LET at == {k \in 2..(Len(s) - 1) : /\ s[k] \in {"TO", "to", "To", "tO"}
                                       /\ s[k - 1] \in Whitespace
                                       /\ s[k + 1] \in Whitespace}
    IN IF at = {} THEN 0 ELSE Leftmost(at)

\* Where the whitespace run that ends before index k starts
WsRunStart(s, k) ==
    Leftmost({j \in 1..(k - 1) : \A m \in j..(k - 1) : s[m] \in Whitespace})

\* rangeContent.split(/\s+TO\s+/i)
RECURSIVE SplitTO(_)
SplitAtTO(s, k) == <<SubSeq(s, 1, WsRunStart(s, k) - 1)>> \o SplitTO(SkipWs(Drop(s, k)))
SplitTO(s) == IF FirstTO(s) = 0 THEN <<s>> ELSE SplitAtTO(s, FirstTO(s))

Filter(fld, oper, val) == [field |-> fld, operator |-> oper, value |-> val, negate |-> FALSE]
NoFilter == Filter(<<>>, "", <<>>)

\* createFilter putting the bounds of the range in the wrong order
RangeFilter_swapped(fld, parts) ==
    Filter(fld, "range", <<parseValue(parts[2]), parseValue(parts[1])>>)

RangeFilter(fld, parts) ==
    Filter(fld, "range", <<parseValue(parts[1]), parseValue(parts[2])>>)

IsRangeLiteral(v) ==
    /\ Len(v) >= 2 /\ v[1] = "[" /\ v[Len(v)] = "]"
    /\ Len(SplitTO(SubSeq(v, 2, Len(v) - 1))) = 2

\* The switch of createFilter
OperatorMap_contains(oper) ==
    CASE oper = <<":">> -> "contains"
      [] oper = <<">">> -> "gt"
      [] oper = <<">", "=">> -> "gte"
      [] oper = <<"<">> -> "lt"
      [] oper = <<"<", "=">> -> "lte"
      [] OTHER -> ""

OperatorMap(oper) ==
    CASE oper = <<":">> -> "equals"
      [] oper = <<">">> -> "gt"
      [] oper = <<">", "=">> -> "gte"
      [] oper = <<"<">> -> "lt"
      [] oper = <<"<", "=">> -> "lte"
      [] OTHER -> ""

\* createFilter(field, operator, value): [ok, filter], ok FALSE for null
createFilter(fld, oper, val) ==
    IF IsRangeLiteral(val)
    THEN [ok |-> TRUE, filter |-> RangeFilter(fld, SplitTO(SubSeq(val, 2, Len(val) - 1)))]
    ELSE IF OperatorMap(oper) = "" THEN [ok |-> FALSE, filter |-> NoFilter]
    ELSE [ok |-> TRUE, filter |-> Filter(fld, OperatorMap(oper), parseValue(val))]

\* What parseExpression returns, and this.position after it
TextResult(text, pos) ==
    [type |-> "text", filter |-> NoFilter, text |-> text, position |-> pos]
FilterResult(made, pos) ==
    [type |-> "filter", filter |-> made, text |-> <<>>, position |-> pos]

\* parseExpression forgetting to set the flag
Negated_unset(r) == r

Negated(r) == IF r.type = "filter" THEN [r EXCEPT !.filter.negate = TRUE] ELSE r

FilterOrSkip(made, pos) ==
    IF made.ok THEN FilterResult(made.filter, pos) ELSE TextResult(<<>>, pos + 1)

\* The branch of parseExpression for a FIELD token at pos
FieldExpression(toks, pos) ==
    IF pos + 1 <= Len(toks) /\ toks[pos + 1].type = "OPERATOR"
    THEN IF pos + 2 <= Len(toks)
         THEN FilterOrSkip(createFilter(toks[pos].value, toks[pos + 1].value,
                                        toks[pos + 2].value), pos + 3)
         ELSE TextResult(<<>>, pos + 3)
    ELSE TextResult(<<>>, pos + 2)

RECURSIVE parseExpression(_, _)
parseExpression(toks, pos) ==
    IF pos > Len(toks) THEN TextResult(<<>>, pos)
    ELSE IF toks[pos].type = "NOT" THEN Negated(parseExpression(toks, pos + 1))
    ELSE IF toks[pos].type = "FIELD" THEN FieldExpression(toks, pos)
    ELSE IF toks[pos].type \in {"TEXT", "VALUE"} THEN TextResult(toks[pos].value, pos + 1)
    ELSE IF toks[pos].type \in {"AND", "OR"} THEN parseExpression(toks, pos + 1)
    ELSE TextResult(<<>>, pos + 1)

\* textParts.join(' ')
RECURSIVE Join(_)
Join(parts) ==
    IF parts = <<>> THEN <<>>
    ELSE IF Len(parts) = 1 THEN parts[1]
    ELSE parts[1] \o <<" ">> \o Join(Drop(parts, 1))

(* Queries *)

IsChunk(a) == a \notin KqlSingles

\* No two chunks side by side: they would read as one longer chunk
QueryWellFormed(q) == \A i \in 1..(Len(q) - 1) : ~(IsChunk(q[i]) /\ IsChunk(q[i + 1]))

QueryAlphabet == {" ", ":", ">", "=", "\"", "[", "(", "level", "ERROR", "42",
                  "2025-10-01", "db-1", "not"}

CuratedQueries ==
    {<<"NOT", " ", "level", ":", "ERROR">>,
     <<"level", ":", "[", "42", " ", "TO", " ", "2025-10-01", "]">>,
     <<"level", ":", "[", "42", " ", "to", " ", "42", " ", "TO", " ", "42", "]">>,
     <<"level", " ", ":", "<", "=", "42", " ", "OR", " ", ")">>,
     <<"level", ":", "\"", "\\", "\"", "ERROR", " ", "42", "\"", " ", "and", " ", "ERROR">>}

\* Chunks that are no keyword
QueryWords == {a \in QueryAlphabet : IsChunk(a) /\ KeywordOf(a) = ""}

\* a AND b, a or b, ...
ConjunctionQueries ==
    {<<a, " ", k, " ", b>> : a, b \in QueryWords, k \in {"AND", "and", "OR", "or", "Or"}}

\* NOT f:v, NOT a, and NOT next to other expressions
NegationQueries ==
    {<<k, " ", f, ":", v>> : k \in {"NOT", "not", "Not"}, f, v \in QueryWords}
    \cup {<<"NOT", " ", a>> : a \in QueryWords}
    \cup {<<"NOT", " ", "ERROR", " ", "level", ":", "42">>,
          <<"level", ":", "42", " ", "NOT", " ", "ERROR">>,
          <<"level", ":", "42", " ", "NOT", " ", "db-1", ":", "ERROR">>,
          <<"not", " ", "level", ":", "42", " ", "db-1", ":", "ERROR">>,
          <<"NOT", " ", "NOT", " ", "level", ":", "42">>,
          <<"NOT", " ", "and", " ", "level", ":", "42">>,
          <<"NOT", " ", "(", " ", "level", ":", "42">>,
          <<"level", ":", "42", " ", "NOT">>}

\* f:[X TO Y], the separator in any letter case
RangeSeparators == {"TO", "to", "To"}
RangeQueries ==
    {<<f, ":", "[", x, " ", t, " ", y, "]">> :
        f \in {"level", "db-1"}, x, y \in QueryWords, t \in RangeSeparators}

\* f:>v, f:>=v, f:<v, f:<=v
ComparisonSigns == {<<">">>, <<">", "=">>, <<"<">>, <<"<", "=">>}
ComparisonQueries ==
    {<<f, ":">> \o c \o <<v>> : f \in {"level", "db-1"}, c \in ComparisonSigns,
                                v \in QueryWords}

\* Bracketed literals that do not hold two parts: [x], [x TO y TO z], []
MalformedRanges ==
    {<<"[", x, "]">> : x \in QueryWords}
    \cup {<<"[", x, " ", "TO", " ", y, " ", "to", " ", x, "]">> : x, y \in {"42", "ERROR"}}
    \cup {<<"[", "]">>, <<"[", "42", " ", "TO", "]">>}
MalformedRangeQueries ==
    {<<f, ":">> \o r : f \in {"level", "db-1"}, r \in MalformedRanges}
    \cup MalformedRanges

Queries ==
    {q \in TextsUpTo(QueryAlphabet, MaxQueryLen) : QueryWellFormed(q)}
        \cup CuratedQueries \cup ConjunctionQueries \cup NegationQueries
        \cup RangeQueries \cup ComparisonQueries \cup MalformedRangeQueries

ParserIdle ==
    /\ pc = "idle"
    /\ op = "parse"
    /\ options = Constructor([hasJson |-> FALSE, json |-> TRUE, hasMax |-> FALSE, max |-> 0])
    /\ tz = 0
    /\ inLine = <<>>
    /\ inFile = NoFile
    /\ inLevel = <<>>
    /\ errors = <<>>
    /\ lineResult = NoLineResult
    /\ fileResult = NoFileResult
    /\ levelOut = ""

\* new KQLParser().parse(query) has been called
KqlInit ==
    /\ AppIdle
    /\ ParserIdle
    /\ IndexIdle
    /\ kqlPc = "tokenize"
    /\ query \in Queries
    /\ lenientDates \in BOOLEAN
    /\ qi = 1
    /\ tokens = <<>>
    /\ position = 1
    /\ filters = <<>>
    /\ textParts = <<>>
    /\ kqlResult = NoKqlResult

\* One turn of the while loop of tokenize
Tokenize ==
    /\ kqlPc = "tokenize"
    /\ qi <= Len(query)
    /\ Len(tokens) < MaxTokens
    /\ qi' = TokenizeTurn(query, qi).i
    /\ tokens' = tokens \o TokenizeTurn(query, qi).push
    /\ UNCHANGED <<appVars, parserVars, indexVars, storeVars, kqlPc, query, position, filters, textParts, kqlResult,
                   lenientDates>>

\* tokenize returns; this.position = 0
StartParse ==
    /\ kqlPc = "tokenize"
    /\ qi > Len(query)
    /\ kqlPc' = "parse"
    /\ position' = 1
    /\ UNCHANGED <<appVars, parserVars, indexVars, storeVars, query, qi, tokens, filters, textParts, kqlResult,
                   lenientDates>>

PushResult(r) ==
    /\ position' = r.position
    /\ filters' = IF r.type = "filter" THEN Append(filters, r.filter) ELSE filters
    /\ textParts' = IF r.type = "text" THEN Append(textParts, r.text) ELSE textParts

\* One turn of the while loop of parse
ParseTurn ==
    /\ kqlPc = "parse"
    /\ position <= Len(tokens)
    /\ PushResult(parseExpression(tokens, position))
    /\ UNCHANGED <<appVars, parserVars, indexVars, storeVars, kqlPc, query, qi, tokens, kqlResult, lenientDates>>

\* parse returns
Return ==
    /\ kqlPc = "parse"
    /\ position > Len(tokens)
    /\ kqlResult' = [filters |-> filters, text |-> Trim(Join(textParts))]
    /\ kqlPc' = "done"
    /\ UNCHANGED <<appVars, parserVars, indexVars, storeVars, query, qi, tokens, position, filters, textParts,
                   lenientDates>>

KqlNext == Tokenize \/ StartParse \/ ParseTurn \/ Return

KqlSpec == KqlInit /\ [][KqlNext]_vars

-----------------------------------------------------------------------------
(* LogSearchIndex.  A Date is the instant it holds, a small integer here;  *)
(* the numbers of this section are plain integers.  The Map entries is the *)
(* sequence of its values in insertion order, miniSearch the sequence of   *)
(* the documents the text index holds, fieldStats the set of the           *)
(* suggestions of the Map of that name.                                    *)

MaxEntries == 3      \* records the index holds at most
MaxBatch == 2        \* records handed to one addEntries call at most
MaxDocs == 2         \* records the index holds when a text is searched
MaxRandom == 2       \* readings of Math.random told apart
MaxClock == 2        \* the last reading of Date.now

\* An array value, and the Date of an instant
ArrayValue(items) == [t |-> "array", n |-> 0, s |-> items]
DateAt(n) == [t |-> "date", n |-> n, s |-> <<>>]

\* value === undefined || value === null
Absent(v) == v.t \in {"undefined", "null"}

\* value == other compared without regard to letter case
StrictEquals_caseless(a, b) ==
    /\ a.t = b.t
    /\ CASE a.t \in {"str", "bool"} ->
              [i \in 1..Len(a.s) |-> UpperAtom(a.s[i])] = [i \in 1..Len(b.s) |-> UpperAtom(b.s[i])]
         [] a.t = "num" -> a.n = b.n
         [] OTHER -> FALSE

\* value === other: objects (Date, Array) are equal to themselves alone
StrictEquals(a, b) ==
    /\ a.t = b.t
    /\ CASE a.t \in {"str", "bool"} -> a.s = b.s
         [] a.t = "num" -> a.n = b.n
         [] OTHER -> FALSE

\* String(value); the text of a Date shares no atom with any other text
String(v) ==
    CASE v.t \in {"str", "bool"} -> v.s
      [] v.t = "num" -> <<ToString(v.n)>>
      [] v.t = "date" -> <<"date@" \o ToString(v.n)>>

LowerAtom(a) ==
    CASE a \in {"ERROR", "error"} -> "error"
      [] a \in {"INFO", "info"} -> "info"
      [] a \in {"DB", "db"} -> "db"
      [] a \in {"Disk", "disk"} -> "disk"
      [] OTHER -> a

toLowerCase(s) == [i \in 1..Len(s) |-> LowerAtom(s[i])]

includes(s, part) ==
    \E i \in 0..(Len(s) - Len(part)) : SubSeq(s, i + 1, i + Len(part)) = part
startsWith(s, part) == Len(part) <= Len(s) /\ SubSeq(s, 1, Len(part)) = part
endsWith(s, part) ==
    Len(part) <= Len(s) /\ SubSeq(s, Len(s) - Len(part) + 1, Len(s)) = part

\* Number(value): nan, or the number n
NaN == [nan |-> TRUE, n |-> 0]
Num(n) == [nan |-> FALSE, n |-> n]
Number(v) ==
    CASE v.t \in {"num", "date", "bool"} -> Num(v.n)
      [] v.t = "str" -> IF IsNumeric(v.s) THEN Num(NumberOf(v.s)) ELSE NaN

\* a > b, a >= b on numbers: false as soon as one of them is NaN
Gt(a, b) == ~a.nan /\ ~b.nan /\ a.n > b.n
Gte(a, b) == ~a.nan /\ ~b.nan /\ a.n >= b.n

\* getFieldValue(entry, field); lineNumber 0 stands for a record without one
getFieldValue(e, fld) ==
    CASE fld = <<"timestamp">> -> DateAt(e.timestamp)
      [] fld = <<"level">> -> StrV(<<e.level>>)
      [] fld = <<"message">> -> StrV(e.message)
      [] fld = <<"file">> -> StrV(e.file)
      [] fld = <<"source">> -> e.source
      [] fld = <<"service">> -> e.service
      [] fld = <<"host">> -> e.host
      [] fld = <<"lineNumber">> ->
            IF e.lineNumber = 0 THEN Undefined ELSE NumberValue(e.lineNumber)
      [] OTHER -> IF e.hasFields THEN Get(e.fields, fld) ELSE Undefined

\* The switch of matchesFilter
Matches(v, f) ==
    CASE f.operator = "equals" -> StrictEquals(v, f.value)
      [] f.operator = "contains" ->
            includes(toLowerCase(String(v)), toLowerCase(String(f.value)))
      [] f.operator = "startsWith" ->
            startsWith(toLowerCase(String(v)), toLowerCase(String(f.value)))
      [] f.operator = "endsWith" ->
            endsWith(toLowerCase(String(v)), toLowerCase(String(f.value)))
      [] f.operator = "gt" -> Gt(Number(v), Number(f.value))
      [] f.operator = "gte" -> Gte(Number(v), Number(f.value))
      [] f.operator = "lt" -> Gt(Number(f.value), Number(v))
      [] f.operator = "lte" -> Gte(Number(f.value), Number(v))
      [] f.operator = "range" ->
            /\ f.value.t = "array"
            /\ Len(f.value.s) = 2
            /\ Gte(Number(v), Number(f.value.s[1]))
            /\ Gte(Number(f.value.s[2]), Number(v))
      [] f.operator = "exists" -> ~Absent(v)
      [] OTHER -> FALSE

\* matchesFilter once getFieldValue has returned v, with the absent value
\* counted as no match whatever the operator
MatchesValue_absentNeverMatches(v, f) ==
    IF Absent(v) THEN FALSE
    ELSE IF f.negate THEN ~Matches(v, f) ELSE Matches(v, f)

\* matchesFilter once getFieldValue has returned v
MatchesValue(v, f) ==
    IF Absent(v) THEN f.operator # "exists"
    ELSE IF f.negate THEN ~Matches(v, f) ELSE Matches(v, f)

matchesFilter(e, f) == MatchesValue(getFieldValue(e, f.field), f)

matchesFilters(e, fs) == \A i \in 1..Len(fs) : matchesFilter(e, fs[i])

\* The time range test of search, with the upper bound left out of the range
InTimeRange_exclusive(e, q) ==
    e.timestamp >= q.timeRange.from /\ e.timestamp < q.timeRange.to

\* The time range test of search
InTimeRange(e, q) ==
    e.timestamp >= q.timeRange.from /\ e.timestamp <= q.timeRange.to

\* Array.from(this.entries.values()).filter(the time range test)
RECURSIVE TimeFiltered(_, _)
TimeFiltered(es, q) ==
    IF es = <<>> THEN <<>>
    ELSE (IF InTimeRange(es[1], q) THEN <<es[1]>> ELSE <<>>) \o TimeFiltered(Tail(es), q)

\* candidateEntries.filter(entry => this.matchesFilters(entry, query.filters))
RECURSIVE FieldFiltered(_, _)
FieldFiltered(es, q) ==
    IF es = <<>> THEN <<>>
    ELSE (IF matchesFilters(es[1], q.filters) THEN <<es[1]>> ELSE <<>>)
             \o FieldFiltered(Tail(es), q)

\* Array.prototype.sort with (a, b) => b.timestamp - a.timestamp: a stable
\* sort, newest first.  e goes behind the k records that are not older.
InsertAt(sorted, e, k) == SubSeq(sorted, 1, k) \o <<e>> \o SubSeq(sorted, k + 1, Len(sorted))
NotOlder(sorted, e) == Cardinality({i \in 1..Len(sorted) : sorted[i].timestamp >= e.timestamp})
InsertDesc(sorted, e) == InsertAt(sorted, e, NotOlder(sorted, e))
RECURSIVE SortDesc(_)
SortDesc(es) ==
    IF es = <<>> THEN <<>>
    ELSE InsertDesc(SortDesc(SubSeq(es, 1, Len(es) - 1)), es[Len(es)])

Candidates(es, q) ==
    IF Len(q.filters) > 0 THEN FieldFiltered(TimeFiltered(es, q), q) ELSE TimeFiltered(es, q)

SearchResult(found) == [entries |-> found, total |-> Len(found)]

(* The text index.  LogSearchIndex hands its records to the minisearch       *)
(* package and asks it for the ids that match a text.  What the package does *)
(* with the calls made here: it splits a text at spaces and punctuation,     *)
(* lowers the case of every term, and holds each document under the terms of *)
(* its fields message, level, file, source, service and host.  A term of a   *)
(* search matches a term of a document that it equals, that it begins        *)
(* (prefix: true) or, with fuzzy: 0.2, that lies within                      *)
(* Math.round(0.2 * length) edits of it; combineWith: 'AND' asks that every  *)
(* term of the search match.  add throws on an id it already holds, and      *)
(* remove reads the id out of the document it is handed.                     *)

\* The characters of an atom
Chars(a) ==
    CASE a = "Disk" -> <<"D", "i", "s", "k">>
      [] a = "disk" -> <<"d", "i", "s", "k">>
      [] a = "Dis" -> <<"D", "i", "s">>
      [] a = "isk" -> <<"i", "s", "k">>
      [] a = "Dizk" -> <<"D", "i", "z", "k">>
      [] a = "full" -> <<"f", "u", "l", "l">>
      [] a = "started" -> <<"s", "t", "a", "r", "t", "e", "d">>
      [] a = "api" -> <<"a", "p", "i">>
      [] a = "DB" -> <<"D", "B">>
      [] a = "Dx" -> <<"D", "x">>
      [] a = "ERROR" -> <<"E", "R", "R", "O", "R">>
      [] a = "INFO" -> <<"I", "N", "F", "O">>
      [] a = "app.log" -> <<"a", "p", "p", ".", "l", "o", "g">>
      [] OTHER -> <<a>>

RECURSIVE CharsOf(_)
CharsOf(text) == IF text = <<>> THEN <<>> ELSE Chars(Head(text)) \o CharsOf(Tail(text))

\* processTerm: term.toLowerCase(), character by character
LowerChar(c) ==
    CASE c = "B" -> "b"
      [] c = "D" -> "d"
      [] c = "E" -> "e"
      [] c = "F" -> "f"
      [] c = "I" -> "i"
      [] c = "N" -> "n"
      [] c = "O" -> "o"
      [] c = "R" -> "r"
      [] OTHER -> c

\* The characters the tokenizer splits at: spaces and punctuation
SeparatorChars == {" ", "\t", "\r", "\n", "-", ".", ":", "[", "]", "{", "}"}

\* tokenize, then processTerm on every term; word is the term being read
RECURSIVE Terms(_, _)
Terms(cs, word) ==
    IF cs = <<>> THEN (IF word = <<>> THEN <<>> ELSE <<word>>)
    ELSE IF Head(cs) \in SeparatorChars
         THEN (IF word = <<>> THEN <<>> ELSE <<word>>) \o Terms(Tail(cs), <<>>)
         ELSE Terms(Tail(cs), Append(word, LowerChar(Head(cs))))

TermsOf(text) == Terms(CharsOf(text), <<>>)
TermSet(text) == {TermsOf(text)[i] : i \in 1..Len(TermsOf(text))}

\* The terms of an optional field: a field that is undefined or null has none
FieldTerms(v) == IF Absent(v) THEN {} ELSE TermSet(String(v))

\* The terms a document is held under: fields of the constructor's options
DocumentTerms(doc) ==
    TermSet(doc.message) \cup TermSet(<<doc.level>>) \cup TermSet(doc.file)
        \cup FieldTerms(doc.source) \cup FieldTerms(doc.service) \cup FieldTerms(doc.host)

IsPrefix(term, word) == Len(term) <= Len(word) /\ SubSeq(word, 1, Len(term)) = term

\* Is b within d edits (a character put in, left out or replaced) of a?
RECURSIVE WithinEdits(_, _, _)
WithinEdits(a, b, d) ==
    IF d < 0 THEN FALSE
    ELSE IF a = <<>> THEN Len(b) <= d
    ELSE IF b = <<>> THEN Len(a) <= d
    ELSE IF Head(a) = Head(b) THEN WithinEdits(Tail(a), Tail(b), d)
    ELSE \/ WithinEdits(Tail(a), Tail(b), d - 1)
         \/ WithinEdits(Tail(a), b, d - 1)
         \/ WithinEdits(a, Tail(b), d - 1)

\* Math.round(term.length * 0.2)
MaxDistance(term) == (2 * Len(term) + 5) \div 10

\* fuzzy: query.fuzzy ? 0.2 : 0, with the fuzzy of every query taken as set
FuzzyOption_always(q) == TRUE

\* fuzzy: query.fuzzy ? 0.2 : 0.  Is it 0.2?
FuzzyOption(q) == "fuzzy" \in DOMAIN q /\ q.fuzzy

\* Does a term of the search match a term of a document?
TermMatches(term, word, fuzzy) ==
    \/ IsPrefix(term, word)
    \/ fuzzy /\ WithinEdits(term, word, MaxDistance(term))

DocumentMatches(doc, terms, fuzzy) ==
    /\ terms # <<>>
    /\ \A i \in 1..Len(terms) : \E word \in DocumentTerms(doc) : TermMatches(terms[i], word, fuzzy)

\* new Set(this.miniSearch.search(query.text, searchOptions).map(r => r.id))
resultIds(docs, q) ==
    {docs[i].id : i \in {j \in 1..Len(docs) : DocumentMatches(docs[j], TermsOf(q.text), FuzzyOption(q))}}

\* candidateEntries.filter(entry => resultIds.has(entry.id))
RECURSIVE TextFiltered(_, _)
TextFiltered(es, ids) ==
    IF es = <<>> THEN <<>>
    ELSE (IF es[1].id \in ids THEN <<es[1]>> ELSE <<>>) \o TextFiltered(Tail(es), ids)

\* MiniSearch.addAll(batch): add, document by document, throws at the first
\* id the index holds already and keeps the documents added before it
RECURSIVE addAll(_, _)
addAll(docs, batch) ==
    IF batch = <<>> THEN [docs |-> docs, threw |-> FALSE]
    ELSE IF \E i \in 1..Len(docs) : docs[i].id = batch[1].id
         THEN [docs |-> docs, threw |-> TRUE]
         ELSE addAll(Append(docs, batch[1]), Tail(batch))

\* MiniSearch.removeAll(entryIds): remove, document by document, reads
\* document.id; handed an id, which has no member id, it reads undefined and
\* throws before it removes anything
removeAll(docs, entryIds) == [docs |-> docs, threw |-> entryIds # <<>>]

\* Does the try block of search raise?  query.timeRange is read once for
\* every stored record, query.filters and query.text once
EvaluationRaises(es, q) ==
    \/ es # <<>> /\ "timeRange" \notin DOMAIN q
    \/ "filters" \notin DOMAIN q
    \/ "text" \notin DOMAIN q

\* The catch block of search, returning every stored record
CaughtResult_everything == [entries |-> entries, total |-> Len(entries)]

\* The catch block of search
CaughtResult == [entries |-> <<>>, total |-> 0]

\* The try block of search, when nothing raises
Evaluated(es, docs, q) ==
    SearchResult(SortDesc(IF Trim(q.text) # <<>>
                          THEN TextFiltered(Candidates(es, q), resultIds(docs, q))
                          ELSE Candidates(es, q)))

\* search(query) on an index of records es and documents docs
search(es, docs, q) ==
    IF EvaluationRaises(es, q) THEN CaughtResult ELSE Evaluated(es, docs, q)

\* this.entries.set(entry.id, entry) for every record of the batch: a record
\* of an id the Map holds takes the place of the one held
RECURSIVE SetAll(_, _)
SetAll(es, batch) ==
    IF batch = <<>> THEN es
    ELSE SetAll(IF \E i \in 1..Len(es) : es[i].id = batch[1].id
                THEN [i \in 1..Len(es) |-> IF es[i].id = batch[1].id THEN batch[1] ELSE es[i]]
                ELSE Append(es, batch[1]),
                Tail(batch))

\* entryIds.forEach(id => this.entries.delete(id))
RECURSIVE DeleteIds(_, _)
DeleteIds(es, ids) ==
    IF es = <<>> THEN <<>>
    ELSE (IF es[1].id \in ids THEN <<>> ELSE <<es[1]>>) \o DeleteIds(Tail(es), ids)

\* getEntry(id): the record, or undefined
getEntry(es, id) ==
    IF \E i \in 1..Len(es) : es[i].id = id
    THEN {es[i] : i \in {j \in 1..Len(es) : es[j].id = id}}
    ELSE {}

(* Field statistics *)

StandardFields == {<<"level">>, <<"file">>, <<"source">>, <<"service">>, <<"host">>}

\* Object.entries(entry.fields), when entry.fields is set
CustomKeys(e) == IF e.hasFields THEN {e.fields[i].k : i \in 1..Len(e.fields)} ELSE {}

\* The values updateFieldStat is handed for a field of a record, those that
\* are undefined or null left out
Observed(e, fld) ==
    {v \in (CASE fld = <<"level">> -> {StrV(<<e.level>>)}
              [] fld = <<"file">> -> {StrV(e.file)}
              [] fld = <<"source">> -> {e.source}
              [] fld = <<"service">> -> {e.service}
              [] fld = <<"host">> -> {e.host}
              [] OTHER -> {})
             \cup (IF e.hasFields
                   THEN {e.fields[i].v : i \in {j \in 1..Len(e.fields) : e.fields[j].k = fld}}
                   ELSE {}) : ~Absent(v)}

\* The keys of the fieldCounts of one updateFieldStats call
ValuesIn(batch, fld) == UNION {Observed(batch[i], fld) : i \in 1..Len(batch)}
CountedFields(batch) ==
    {fld \in StandardFields \cup UNION {CustomKeys(batch[i]) : i \in 1..Len(batch)} :
        ValuesIn(batch, fld) # {}}

\* updateFieldStats(batch): fieldCounts starts empty on every call, and
\* this.fieldStats.set overwrites the suggestion of every field it counted.
\* type and examples are left out.
updateFieldStats(stats, batch) ==
    {s \in stats : s.field \notin CountedFields(batch)}
        \cup {[field |-> fld, cardinality |-> Cardinality(ValuesIn(batch, fld))] :
                fld \in CountedFields(batch)}

\* getFieldSuggestions()
getFieldSuggestions == fieldStats

(* Records and queries *)

Instants == {1, 2, 3}

\* A record out of parseTextLine and a record out of parseJsonLine
TextRecord(ts, lvl) ==
    [id |-> 0, timestamp |-> ts, level |-> lvl, message |-> <<"Disk", " ", "full">>,
     file |-> FileName, raw |-> <<"Disk", " ", "full">>, hasFields |-> FALSE,
     fields |-> <<>>, source |-> StrV(FileName), service |-> Undefined,
     host |-> Undefined, lineNumber |-> 7]
JsonRecord(ts, lvl) ==
    [id |-> 0, timestamp |-> ts, level |-> lvl, message |-> <<"started">>,
     file |-> FileName, raw |-> <<"{", "}">>, hasFields |-> TRUE,
     fields |-> <<[k |-> <<"status">>, v |-> NumberValue(42)],
                  [k |-> <<"code">>, v |-> StrV(<<"42">>)],
                  [k |-> <<"ok">>, v |-> BoolV(FALSE)],
                  [k |-> <<"note">>, v |-> NullV]>>,
     source |-> StrV(<<"api">>), service |-> StrV(<<>>),
     host |-> StrV(<<"DB", "-", "1">>), lineNumber |-> 0]

IndexRecords ==
    {TextRecord(ts, "ERROR") : ts \in Instants} \cup {JsonRecord(ts, "INFO") : ts \in Instants}

Batches == UNION {[1..k -> IndexRecords] : k \in 1..MaxBatch}

\* The records of a batch with the ids generateId gave them: ids not met before
WithIds(batch, used) == [i \in 1..Len(batch) |-> [batch[i] EXCEPT !.id = used + i]]

LevelFilters ==
    {[field |-> <<"level">>, operator |-> "equals", value |-> StrV(<<l>>), negate |-> n] :
        l \in {"ERROR", "INFO", "WARN", "error"}, n \in BOOLEAN}

TimeRanges == {[from |-> a, to |-> b] : a, b \in {0} \cup Instants}

SearchQueries ==
    {[text |-> t, filters |-> fs, timeRange |-> r] :
        t \in {<<>>, <<" ">>}, fs \in {<<>>} \cup {<<f>> : f \in LevelFilters},
        r \in TimeRanges}

\* Queries with a text to look for.  fuzzy is an optional member.
QueryTexts ==
    {<<"Disk">>, <<"disk">>, <<"Dis">>, <<"isk">>, <<"Dizk">>, <<"Dx">>, <<"-">>,
     <<"Disk", " ", "full">>, <<"full", " ", "Disk">>, <<"sk", " ", "fu">>, <<"ERROR">>}

TextTimeRanges == {[from |-> 0, to |-> 3], [from |-> 2, to |-> 3]}

TextFilters ==
    {<<>>, <<[field |-> <<"level">>, operator |-> "equals", value |-> StrV(<<"ERROR">>),
              negate |-> FALSE]>>}

TextQueries ==
    {[text |-> t, filters |-> fs, timeRange |-> r] :
        t \in QueryTexts, fs \in TextFilters, r \in TextTimeRanges}
    \cup {[text |-> t, filters |-> fs, timeRange |-> r, fuzzy |-> z] :
            t \in QueryTexts, fs \in TextFilters, r \in TextTimeRanges, z \in BOOLEAN}

\* Queries a caller that is not type-checked can hand over: a member is
\* missing, or text is a number and so has no trim (held under textNumber)
MalformedQueries ==
    {[text |-> <<>>, filters |-> <<>>],
     [text |-> <<"Disk">>, filters |-> <<>>],
     [text |-> <<>>, timeRange |-> [from |-> 0, to |-> 3]],
     [filters |-> <<>>, timeRange |-> [from |-> 0, to |-> 3]],
     [textNumber |-> 5, filters |-> <<>>, timeRange |-> [from |-> 0, to |-> 3]]}

(* The index's behaviours: an index is constructed, records are added in    *)
(* batches, then one search is made.  search leaves the index as it is, so  *)
(* a search made earlier would change nothing for the calls that follow.    *)

IndexInit ==
    /\ AppIdle
    /\ ParserIdle
    /\ KqlIdle
    /\ MatchIdle
    /\ SearchIdle
    /\ StoreIdle
    /\ indexPc = "ready"
    /\ entries = <<>>

\* addEntries(batch): addAll first; when it throws the call rejects there
AddBatch(batch) ==
    /\ miniSearch' = addAll(miniSearch, batch).docs
    /\ rejected' = addAll(miniSearch, batch).threw
    /\ IF addAll(miniSearch, batch).threw
       THEN UNCHANGED <<entries, fieldStats>>
       ELSE /\ entries' = SetAll(entries, batch)
            /\ fieldStats' = updateFieldStats(fieldStats, batch)
    /\ handed' = handed + Len(batch)
    /\ indexPc' = "addEntries"
    /\ UNCHANGED <<appVars, parserVars, kqlVars, searchQuery, searchResult,
                   matchPc, matchEntry, matchFilter, matchResult, removedIds>>

\* addEntries(batch), of records whose ids differ from every id met before
AddUpTo(most) ==
    /\ indexPc \in {"ready", "addEntries", "removeEntries"}
    /\ \E batch \in Batches :
          /\ handed + Len(batch) <= most
          /\ AddBatch(WithIds(batch, handed))
    /\ UNCHANGED now

AddEntries == AddUpTo(MaxEntries)

\* search(q), for q out of a set of queries
SearchAmong(queries) ==
    /\ indexPc \in {"ready", "addEntries", "removeEntries"}
    /\ \E q \in queries :
          /\ searchQuery' = q
          /\ searchResult' = search(entries, miniSearch, q)
          /\ indexPc' = IF EvaluationRaises(entries, q) THEN "searchCaught" ELSE "search"
    /\ rejected' = FALSE
    /\ UNCHANGED <<appVars, parserVars, kqlVars, entries, matchPc, matchEntry, matchFilter, matchResult,
                   miniSearch, fieldStats, handed, removedIds, now>>

Search == SearchAmong(SearchQueries)

IndexNext == AddEntries \/ Search

IndexSpec == IndexInit /\ [][IndexNext]_vars

(* Search by text: fewer records are added, then one search is made with a  *)
(* text to look for or with a query that lacks a member.                    *)

AddDocuments == AddUpTo(MaxDocs)

SearchText == SearchAmong(TextQueries \cup MalformedQueries)

TextNext == AddDocuments \/ SearchText

TextSpec == IndexInit /\ [][TextNext]_vars

(* Removal: records are added, removeEntries is called with ids the index  *)
(* holds, then one search is made.                                          *)

\* The arrays of ids handed to removeEntries: distinct ids of stored records
IdArrays ==
    {<<>>} \cup {<<entries[i].id>> : i \in 1..Len(entries)}
           \cup {<<entries[p[1]].id, entries[p[2]].id>> :
                    p \in {r \in (1..Len(entries)) \X (1..Len(entries)) : r[1] # r[2]}}

\* removeEntries(entryIds): removeAll first; when it throws the call rejects there
RemoveEntries ==
    /\ indexPc \in {"addEntries", "removeEntries"}
    /\ \E entryIds \in IdArrays :
          /\ removedIds' = removedIds \cup {entryIds[i] : i \in 1..Len(entryIds)}
          /\ miniSearch' = removeAll(miniSearch, entryIds).docs
          /\ rejected' = removeAll(miniSearch, entryIds).threw
          /\ entries' = IF removeAll(miniSearch, entryIds).threw
                        THEN entries
                        ELSE DeleteIds(entries, {entryIds[i] : i \in 1..Len(entryIds)})
    /\ indexPc' = "removeEntries"
    /\ UNCHANGED <<appVars, parserVars, kqlVars, searchQuery, searchResult, matchPc, matchEntry,
                   matchFilter, matchResult, fieldStats, handed, now>>

RemovalQueries ==
    {[text |-> t, filters |-> <<>>, timeRange |-> [from |-> 0, to |-> 3]] :
        t \in {<<>>, <<"Disk">>, <<"started">>}}

SearchStored == SearchAmong(RemovalQueries)

RemovalNext == AddEntries \/ RemoveEntries \/ SearchStored

RemovalSpec == IndexInit /\ [][RemovalNext]_vars

(* Ingestion: lines are parsed, each record takes its id from generateId,   *)
(* and the records of each parse are handed to addEntries.                  *)

\* generateId(): Math.random().toString(36).substring(2) + Date.now().toString(36),
\* for a reading r of Math.random and a reading t of Date.now.  Equal
\* readings give equal ids.
generateId(r, t) == <<r, t>>

\* The readings of Math.random and of Date.now
Randoms == 0..(MaxRandom - 1)
Clock == 0..MaxClock

IngestRecords == {TextRecord(1, "ERROR"), JsonRecord(2, "INFO")}

\* The records of one parse, each with the readings its id is made of
Parses == UNION {[1..k -> IngestRecords \X Randoms \X Clock] : k \in 1..MaxBatch}

\* Date.now() does not go back
InClockOrder(parse) ==
    /\ parse[1][3] >= now
    /\ \A i \in 1..(Len(parse) - 1) : parse[i][3] <= parse[i + 1][3]

\* The records of a parse, with their ids
Parsed(parse) ==
    [i \in 1..Len(parse) |-> [parse[i][1] EXCEPT !.id = generateId(parse[i][2], parse[i][3])]]

\* A parse, then addEntries with its records
Ingest ==
    /\ indexPc \in {"ready", "addEntries"}
    /\ \E parse \in Parses :
          /\ handed + Len(parse) <= MaxEntries
          /\ InClockOrder(parse)
          /\ now' = parse[Len(parse)][3]
          /\ AddBatch(Parsed(parse))

IngestNext == Ingest

IngestSpec == IndexInit /\ [][IngestNext]_vars

(* matchesFilter on its own: one record, one filter *)

FilterFields ==
    {<<"timestamp">>, <<"level">>, <<"message">>, <<"file">>, <<"source">>, <<"service">>,
     <<"host">>, <<"lineNumber">>, <<"status">>, <<"code">>, <<"ok">>, <<"note">>,
     <<"missing">>}

FilterOperators ==
    {"equals", "contains", "startsWith", "endsWith", "gt", "gte", "lt", "lte", "range",
     "exists", "regex"}

ScalarValues ==
    {StrV(<<"ERROR">>), StrV(<<"error">>), StrV(<<"db">>), StrV(<<"42">>), StrV(<<>>),
     NumberValue(42), NumberValue(7), DateAt(2)}

FilterValues ==
    ScalarValues \cup {ArrayValue(<<NumberValue(7), NumberValue(42)>>),
                       ArrayValue(<<DateAt(1), DateAt(2)>>)}

\* An array value comes with the range operator alone
MatchFilters ==
    {f \in [field : FilterFields, operator : FilterOperators, value : FilterValues,
            negate : BOOLEAN] : f.value.t = "array" => f.operator = "range"}

MatchEntries == {TextRecord(2, "ERROR"), JsonRecord(2, "INFO"), JsonRecord(3, "ERROR")}

FilterInit ==
    /\ AppIdle
    /\ ParserIdle
    /\ KqlIdle
    /\ SearchIdle
    /\ StoreIdle
    /\ indexPc = "idle"
    /\ entries = <<>>
    /\ matchPc = "ready"
    /\ matchEntry \in MatchEntries
    /\ matchFilter \in MatchFilters
    /\ matchResult = FALSE

\* matchesFilter(matchEntry, matchFilter)
MatchesFilter ==
    /\ matchPc = "ready"
    /\ matchResult' = matchesFilter(matchEntry, matchFilter)
    /\ matchPc' = "done"
    /\ UNCHANGED <<appVars, parserVars, kqlVars, storeVars, indexPc, entries, searchQuery,
                   searchResult, matchEntry, matchFilter>>

FilterNext == MatchesFilter

FilterSpec == FilterInit /\ [][FilterNext]_vars

-----------------------------------------------------------------------------
(* ParserWorker.parseFile.  The stream of the file delivers its text chunk  *)
(* by chunk; a chunk is any run of characters, and an atom is never cut.    *)

\* The parts of the buffer at lines.pop(): the complete lines and the rest
CompleteLines(text) == SubSeq(Split(text), 1, Len(Split(text)) - 1)
Rest(text) == Split(text)[Len(Split(text))]

\* One turn of the for loop over the complete lines; r is what parseLine did
WorkerStep(log, line, r) ==
    [entries |-> IF Trim(line) # <<>> /\ r.kind = "entry"
                 THEN Append(log.entries, r.entry) ELSE log.entries,
     errors |-> IF Trim(line) # <<>> /\ r.kind = "throw"
                THEN Append(log.errors, [line |-> log.lineNumber, content |-> line,
                                         error |-> r.error])
                ELSE log.errors,
     totalLines |-> log.totalLines + 1,
     lineNumber |-> log.lineNumber + 1]

RECURSIVE WorkerLoop(_, _, _, _)
WorkerLoop(opts, lines, fileName, log) ==
    IF lines = <<>> THEN log
    ELSE WorkerLoop(opts, Tail(lines), fileName,
                    WorkerStep(log, lines[1],
                               parseLine(opts, lines[1], fileName, log.lineNumber)))

\* The remaining buffer once the stream is done; r is what parseLine did
LastLine(log, r) ==
    [entries |-> IF r.kind = "entry" THEN Append(log.entries, r.entry) ELSE log.entries,
     errors |-> log.errors,
     totalLines |-> log.totalLines + 1,
     lineNumber |-> log.lineNumber]

\* parseFile(inFile, options) has been called and is about to read
WorkerInit ==
    /\ KqlIdle
    /\ IndexIdle
    /\ LoaderIdle
    /\ ViewIdle
    /\ pc = "idle"
    /\ op = "parse"
    /\ options \in {Constructor(a) : a \in {b \in OptionArgs : ~b.hasMax}}
    /\ tz = 0
    /\ inLine = <<>>
    /\ inFile \in {fl \in Files : fl.readable}
    /\ inLevel = <<>>
    /\ errors = <<>>
    /\ lineResult = NoLineResult
    /\ fileResult = NoFileResult
    /\ levelOut = ""
    /\ workerPc = "reading"
    /\ unread = inFile.text
    /\ buffer = <<>>
    /\ workerLog = NoWorkerLog

\* reader.read() delivers a chunk: the complete lines of the buffer are parsed
ReadChunk ==
    /\ workerPc = "reading"
    /\ unread # <<>>
    /\ \E k \in 1..Len(unread) :
          /\ unread' = Drop(unread, k)
          /\ buffer' = Rest(buffer \o SubSeq(unread, 1, k))
          /\ workerLog' = WorkerLoop(options, CompleteLines(buffer \o SubSeq(unread, 1, k)),
                                     inFile.name, workerLog)
    /\ UNCHANGED <<parserVars, kqlVars, indexVars, storeVars, loaderVars, viewVars, workerPc>>

\* reader.read() reports done: the rest of the buffer is parsed outside the
\* try of the loop, so what parseLine throws reaches the outer catch, which
\* throws in turn
ReadDone ==
    /\ workerPc = "reading"
    /\ unread = <<>>
    /\ IF Trim(buffer) = <<>>
       THEN workerPc' = "resolved" /\ UNCHANGED workerLog
       ELSE IF parseLine(options, buffer, inFile.name, workerLog.lineNumber).kind = "throw"
            THEN workerPc' = "rejected" /\ UNCHANGED workerLog
            ELSE /\ workerPc' = "resolved"
                 /\ workerLog' = LastLine(workerLog,
                                          parseLine(options, buffer, inFile.name,
                                                    workerLog.lineNumber))
    /\ UNCHANGED <<parserVars, kqlVars, indexVars, storeVars, loaderVars, viewVars,
                   unread, buffer>>

WorkerNext == ReadChunk \/ ReadDone

WorkerSpec == WorkerInit /\ [][WorkerNext]_vars

-----------------------------------------------------------------------------
(* FileLoader.  A run of processFiles or of loadDemoData is suspended at    *)
(* each await; files may be dropped while earlier runs are suspended, and   *)
(* the demo button is disabled while isIndexing is set.  loads holds, for   *)
(* each run started, where it stands: "import", "parse" (with the number of *)
(* files parsed so far), "add" or "done".                                   *)

MaxLoads == 3        \* runs started at most
MaxFiles == 2        \* valid files of one handleFileSelect call at most

InFlight(run) == run.at # "done"

\* handleFileSelect(files) with n valid files: processFiles runs up to its
\* first await
SelectFiles ==
    /\ Len(loads) < MaxLoads
    /\ \E n \in 1..MaxFiles :
          loads' = Append(loads, [kind |-> "files", at |-> "import", files |-> n, parsed |-> 0])
    /\ isIndexing' = TRUE
    /\ indexingProgress' = 0
    /\ UNCHANGED <<parserVars, kqlVars, indexVars, storeVars, workerVars, viewVars>>

\* A click on the demo button: loadDemoData runs up to its first await
LoadDemo ==
    /\ Len(loads) < MaxLoads
    /\ ~isIndexing
    /\ loads' = Append(loads, [kind |-> "demo", at |-> "import", files |-> 0, parsed |-> 0])
    /\ isIndexing' = TRUE
    /\ indexingProgress' = 0
    /\ UNCHANGED <<parserVars, kqlVars, indexVars, storeVars, workerVars, viewVars>>

\* The finally block of a run
Finally(r) ==
    /\ loads' = [loads EXCEPT ![r].at = "done"]
    /\ isIndexing' = FALSE
    /\ indexingProgress' = 0

\* processFiles resumes: the import is done, the first file is handed to parseLogFile
ParseFirst(r) ==
    /\ loads[r].kind = "files" /\ loads[r].at = "import"
    /\ loads' = [loads EXCEPT ![r].at = "parse"]
    /\ indexingProgress' = 0
    /\ UNCHANGED isIndexing

\* processFiles resumes: a file is parsed and another is handed to parseLogFile
ParseNext(r) ==
    /\ loads[r].kind = "files" /\ loads[r].at = "parse"
    /\ loads[r].parsed + 1 < loads[r].files
    /\ loads' = [loads EXCEPT ![r].parsed = @ + 1]
    /\ indexingProgress' = ((loads[r].parsed + 1) * 50) \div loads[r].files
    /\ UNCHANGED isIndexing

\* processFiles resumes: the last file is parsed; with entries found
\* addEntries is called, with none the run ends
ParseLast(r) ==
    /\ loads[r].kind = "files" /\ loads[r].at = "parse"
    /\ loads[r].parsed + 1 = loads[r].files
    /\ \/ /\ loads' = [loads EXCEPT ![r].parsed = @ + 1, ![r].at = "add"]
          /\ indexingProgress' = 75
          /\ UNCHANGED isIndexing
       \/ Finally(r)

\* loadDemoData resumes: the imports are done, addEntries is called
AddDemo(r) ==
    /\ loads[r].kind = "demo" /\ loads[r].at = "import"
    /\ loads' = [loads EXCEPT ![r].at = "add"]
    /\ indexingProgress' = 50
    /\ UNCHANGED isIndexing

\* A run resumes after addEntries, resolved or rejected, and ends
Added(r) ==
    /\ loads[r].at = "add"
    /\ Finally(r)

\* A suspended run resumes
Resume ==
    /\ \E r \in 1..Len(loads) :
          ParseFirst(r) \/ ParseNext(r) \/ ParseLast(r) \/ AddDemo(r) \/ Added(r)
    /\ UNCHANGED <<parserVars, kqlVars, indexVars, storeVars, workerVars, viewVars>>

LoaderInit ==
    /\ ParserIdle
    /\ KqlIdle
    /\ IndexIdle
    /\ WorkerIdle
    /\ ViewIdle
    /\ LoaderIdle

LoaderNext == SelectFiles \/ LoadDemo \/ Resume

LoaderSpec == LoaderInit /\ [][LoaderNext]_vars

-----------------------------------------------------------------------------
(* Discover.  performSearch is made anew by useCallback whenever query or   *)
(* searchResults is another object than at the render before, and the       *)
(* effect runs whenever performSearch is made anew: it clears the timeout   *)
(* it set before and sets one of 300 ms.  The timeout runs the              *)
(* performSearch of the render that set it.                                 *)

MaxSearches == 3     \* searches Discover begins at most

ViewQueries ==
    {NoViewQuery,
     [text |-> <<"Disk">>, filters |-> <<>>],
     [text |-> <<>>, filters |-> <<[field |-> <<"level">>, operator |-> "equals",
                                   value |-> StrV(<<"ERROR">>), negate |-> FALSE]>>]}

\* !query.text && query.filters.length === 0
BlankQuery(q) == q.text = <<>> /\ Len(q.filters) = 0

\* The dependencies of performSearch at this render
Deps == [query |-> viewQuery, results |-> storedResults]

\* Discover is mounted on the store as it is created; its effect has run once
ViewInit ==
    /\ ParserIdle
    /\ KqlIdle
    /\ IndexIdle
    /\ WorkerIdle
    /\ LoaderIdle
    /\ viewQuery = NoViewQuery
    /\ storedResults = NoResults
    /\ effectDeps = [query |-> NoViewQuery, results |-> NoResults]
    /\ timer = TRUE
    /\ isSearching = FALSE
    /\ inFlight = 0
    /\ searches = 0

\* setQuery(q): the user changes the query
ChangeQuery ==
    /\ \E q \in ViewQueries \ {viewQuery} : viewQuery' = q
    /\ UNCHANGED <<parserVars, kqlVars, indexVars, storeVars, workerVars, loaderVars,
                   storedResults, effectDeps, timer, isSearching, inFlight, searches>>

\* A render after query or searchResults has changed: the effect clears the
\* timeout and sets a new one
RunEffect ==
    /\ effectDeps # Deps
    /\ effectDeps' = Deps
    /\ timer' = TRUE
    /\ UNCHANGED <<parserVars, kqlVars, indexVars, storeVars, workerVars, loaderVars,
                   viewQuery, storedResults, isSearching, inFlight, searches>>

\* The timeout fires: performSearch, with the query and the searchResults
\* of the render that set it, up to its first await
TimerFires ==
    /\ timer
    /\ timer' = FALSE
    /\ IF BlankQuery(effectDeps.query)
       THEN /\ storedResults' =
                  IF effectDeps.results.id = 0 \/ ~effectDeps.results.some
                  THEN NoResults ELSE storedResults
            /\ UNCHANGED <<isSearching, inFlight, searches>>
       ELSE /\ searches < MaxSearches
            /\ isSearching' = TRUE
            /\ inFlight' = inFlight + 1
            /\ searches' = searches + 1
            /\ UNCHANGED storedResults
    /\ UNCHANGED <<parserVars, kqlVars, indexVars, storeVars, workerVars, loaderVars,
                   viewQuery, effectDeps>>

\* search resolves: setSearchResults(results), a new object, then the
\* finally block
SearchReturns ==
    /\ inFlight > 0
    /\ \E found \in BOOLEAN :
          storedResults' = [id |-> searches - inFlight + 1, some |-> found]
    /\ isSearching' = FALSE
    /\ inFlight' = inFlight - 1
    /\ UNCHANGED <<parserVars, kqlVars, indexVars, storeVars, workerVars, loaderVars,
                   viewQuery, effectDeps, timer, searches>>

ViewNext == ChangeQuery \/ RunEffect \/ TimerFires \/ SearchReturns

ViewSpec == ViewInit /\ [][ViewNext]_vars

-----------------------------------------------------------------------------
(* Properties of KQLParser *)

BareWords == {a \in QueryAlphabet : IsChunk(a) /\ KeywordOf(a) = ""}

\* The value a bare word is coerced to: a number, else a date (what the
\* engine's Date accepts), else the word
CoercedWord(v) ==
    IF v \in KqlNumbers THEN [t |-> "num", n |-> 42, s |-> <<>>]
    ELSE IF v \in KqlDates \/ (v \in KqlMixed /\ lenientDates)
         THEN [t |-> "date", n |-> 0, s |-> <<v>>]
    ELSE [t |-> "str", n |-> 0, s |-> <<v>>]

\* C10: for every field word f and bare word v, neither a keyword nor holding
\* a special character, parse("f:v") returns exactly one filter, with field
\* f, operator equals, the coerced v as value and no negate flag, and empty
\* free text.
C10_FieldColonValue ==
    \A f, v \in BareWords :
        (kqlPc = "done" /\ query = <<f, ":", v>>) =>
            /\ kqlResult.filters =
                  <<[field |-> <<f>>, operator |-> "equals",
                     value |-> CoercedWord(v), negate |-> FALSE]>>
            /\ kqlResult.text = <<>>

C10_Witness ==
    /\ kqlPc = "done"
    /\ query = <<"level", ":", "ERROR">>
    /\ Len(kqlResult.filters) = 1
    /\ kqlResult.filters[1].value = [t |-> "str", n |-> 0, s |-> <<"ERROR">>]

KqlDone == kqlPc = "done"

ExpressionParsed == kqlPc = "parse" /\ kqlPc' = "parse" /\ position' # position

\* The expression that follows the token at position
Following == parseExpression(tokens, position + 1)

C13_RangeLiteral ==
    \A f \in {"level", "db-1"} : \A x, y \in BareWords : \A t \in {"TO", "to", "To"} :
        (KqlDone /\ query = <<f, ":", "[", x, " ", t, " ", y, "]">>) =>
            /\ kqlResult.filters =
                  <<[field |-> <<f>>, operator |-> "range",
                     value |-> <<CoercedWord(x), CoercedWord(y)>>, negate |-> FALSE]>>
            /\ kqlResult.text = <<>>

C13_Witness ==
    /\ KqlDone
    /\ query = <<"level", ":", "[", "42", " ", "to", " ", "ERROR", "]">>
    /\ Len(kqlResult.filters) = 1
    /\ kqlResult.filters[1].operator = "range"
    /\ kqlResult.filters[1].value =
          <<[t |-> "num", n |-> 42, s |-> <<>>], [t |-> "str", n |-> 0, s |-> <<"ERROR">>]>>
    /\ kqlResult.text = <<>>

\* The operator the documentation gives to a comparison sign
ComparisonName(c) ==
    CASE c = <<">">> -> "gt"
      [] c = <<">", "=">> -> "gte"
      [] c = <<"<">> -> "lt"
      [] c = <<"<", "=">> -> "lte"

\* C14: field:>value, field:>=value, field:<value and field:<=value each
\* parse to exactly one filter, with operator gt, gte, lt and lte and the
\* coerced value, and an empty text.
C14_Comparisons ==
    \A f \in {"level", "db-1"} : \A v \in BareWords :
      \A c \in {<<">">>, <<">", "=">>, <<"<">>, <<"<", "=">>} :
        (KqlDone /\ query = <<f, ":">> \o c \o <<v>>) =>
            /\ kqlResult.filters =
                  <<[field |-> <<f>>, operator |-> ComparisonName(c),
                     value |-> CoercedWord(v), negate |-> FALSE]>>
            /\ kqlResult.text = <<>>

\* C15: a bracketed literal that does not hold exactly two parts separated
\* by TO never makes a filter: parse returns no filter for the expression and
\* the literal is part of the free text.
C15_MalformedRangeIsText ==
    \A f \in {"level", "db-1"} :
      \A r \in {<<"[", "42", "]">>, <<"[", "ERROR", "]">>, <<"[", "]">>,
                <<"[", "42", " ", "TO", "]">>,
                <<"[", "42", " ", "TO", " ", "ERROR", " ", "to", " ", "42", "]">>} :
        (KqlDone /\ query = <<f, ":">> \o r) =>
            /\ kqlResult.filters = <<>>
            /\ r \in {SubSeq(kqlResult.text, i, j) : i, j \in 1..Len(kqlResult.text)}

\* The values of the TEXT and VALUE tokens, in the order of the query
RECURSIVE TextValues(_)
TextValues(toks) ==
    IF toks = <<>> THEN <<>>
    ELSE (IF toks[1].type \in {"TEXT", "VALUE"} THEN <<toks[1].value>> ELSE <<>>)
             \o TextValues(Tail(toks))

\* No token of the query belongs to a field expression, and every word is a
\* bare word
OnlyFreeText ==
    \A i \in 1..Len(tokens) :
        /\ tokens[i].type \in {"TEXT", "PAREN", "OPERATOR", "AND", "OR", "NOT"}
        /\ tokens[i].type = "TEXT" => tokens[i].value \in {<<a>> : a \in BareWords}

\* C16: the text of the result is the values of the TEXT and bare VALUE
\* tokens outside field expressions, in the order met, joined by exactly one
\* space; parentheses, stray operators and consumed keywords add nothing to
\* it, not even a space.
C16_TextIsJoinedWords ==
    (KqlDone /\ OnlyFreeText) => kqlResult.text = Join(TextValues(tokens))

\* C27: parse terminates on every query: every turn of the loop of tokenize
\* moves past at least one character of the query, and every turn of the
\* loop of parse moves past at least one token.
C27_EveryTurnConsumes ==
    [][/\ (kqlPc = "tokenize" /\ kqlPc' = "tokenize") => qi' > qi
       /\ (kqlPc = "parse" /\ kqlPc' = "parse") => position' > position]_vars

-----------------------------------------------------------------------------
(* Properties of LogSearchIndex *)

\* The last call was a search: searchResult is its answer on entries
Searched == indexPc = "search"

\* Where in entries the record of an id is held
PositionOf(id) == CHOOSE i \in 1..Len(entries) : entries[i].id = id

\* The ids of the stored records whose timestamp lies within [from, to]
InRangeIds ==
    {entries[i].id : i \in {j \in 1..Len(entries) :
        /\ searchQuery.timeRange.from <= entries[j].timestamp
        /\ entries[j].timestamp <= searchQuery.timeRange.to}}

ResultIds == {searchResult.entries[j].id : j \in 1..Len(searchResult.entries)}

\* C17: search with empty text and no filters returns exactly the records
\* with from <= timestamp <= to, each once, newest first, records of equal
\* timestamp in insertion order, and total is the number of entries returned.
C17_TimeRangeSortedStable ==
    (Searched /\ searchQuery.text = <<>> /\ searchQuery.filters = <<>>) =>
        /\ ResultIds = InRangeIds
        /\ Len(searchResult.entries) = Cardinality(InRangeIds)
        /\ \A j \in 1..Len(searchResult.entries) :
              searchResult.entries[j] = entries[PositionOf(searchResult.entries[j].id)]
        /\ \A j, k \in 1..Len(searchResult.entries) :
              j < k =>
                /\ searchResult.entries[j].timestamp >= searchResult.entries[k].timestamp
                /\ searchResult.entries[j].timestamp = searchResult.entries[k].timestamp =>
                      PositionOf(searchResult.entries[j].id) < PositionOf(searchResult.entries[k].id)
        /\ searchResult.total = Len(searchResult.entries)

C17_Witness ==
    /\ Searched
    /\ searchQuery = [text |-> <<>>, filters |-> <<>>, timeRange |-> [from |-> 1, to |-> 2]]
    /\ Len(entries) = 3
    /\ <<entries[1].timestamp, entries[2].timestamp, entries[3].timestamp>> = <<2, 3, 1>>
    /\ searchResult.total = 2
    /\ <<searchResult.entries[1].id, searchResult.entries[2].id>> = <<1, 3>>

\* Records of equal timestamp come back in insertion order
C17_TieWitness ==
    /\ Searched
    /\ searchQuery = [text |-> <<>>, filters |-> <<>>, timeRange |-> [from |-> 1, to |-> 2]]
    /\ Len(entries) = 3
    /\ <<entries[1].timestamp, entries[2].timestamp, entries[3].timestamp>> = <<2, 1, 2>>
    /\ <<searchResult.entries[1].id, searchResult.entries[2].id, searchResult.entries[3].id>>
          = <<1, 3, 2>>

\* The query of the last search with the negate flag of its one filter flipped
Flipped ==
    [searchQuery EXCEPT !.filters[1].negate = ~searchQuery.filters[1].negate]

IdsOf(es) == {es[j].id : j \in 1..Len(es)}

\* C18: search with the single filter {level, equals, L} and no text returns exactly the
\* in-range records whose level is L, and with negate set exactly the in-range
\* records whose level is not L; the two results are disjoint and together
\* they are all the in-range records.
C18_LevelFilterAndComplement ==
    (/\ Searched
     /\ Trim(searchQuery.text) = <<>>
     /\ Len(searchQuery.filters) = 1
     /\ searchQuery.filters[1].field = <<"level">>
     /\ searchQuery.filters[1].operator = "equals") =>
        /\ ResultIds =
              {id \in InRangeIds :
                  (<<entries[PositionOf(id)].level>> = searchQuery.filters[1].value.s)
                      # searchQuery.filters[1].negate}
        /\ Len(searchResult.entries) = Cardinality(ResultIds)
        /\ ResultIds \cap IdsOf(search(entries, miniSearch, Flipped).entries) = {}
        /\ ResultIds \cup IdsOf(search(entries, miniSearch, Flipped).entries) = InRangeIds

C18_Witness ==
    /\ Searched
    /\ Len(entries) = 3
    /\ <<entries[1].level, entries[2].level, entries[3].level>> = <<"ERROR", "INFO", "ERROR">>
    /\ <<entries[1].timestamp, entries[2].timestamp, entries[3].timestamp>> = <<1, 2, 3>>
    /\ searchQuery.timeRange = [from |-> 1, to |-> 2]
    /\ searchQuery.filters =
          <<[field |-> <<"level">>, operator |-> "equals", value |-> StrV(<<"ERROR">>),
             negate |-> TRUE]>>
    /\ ResultIds = {2}

MatchDone == matchPc = "done"

\* C19: for every record and every filter, whatever the operator and whether
\* or not the record holds the field, the filter with negate set matches
\* exactly when the same filter with negate unset does not.
C19_NegateInverts ==
    (MatchDone /\ matchFilter.negate) =>
        matchResult = ~matchesFilter(matchEntry, [matchFilter EXCEPT !.negate = FALSE])

\* The fields a record of the model holds no value for
AbsentOn(e, fld) ==
    IF e.hasFields THEN fld \in {<<"lineNumber">>, <<"note">>, <<"missing">>}
    ELSE fld \in {<<"service">>, <<"host">>, <<"status">>, <<"code">>, <<"ok">>,
                  <<"note">>, <<"missing">>}

\* C20: when the field of the filter resolves to undefined or null on the
\* record, an exists filter does not match it and a filter with any other
\* operator matches it, whatever the comparison value.
C20_AbsentFieldMatches ==
    (MatchDone /\ AbsentOn(matchEntry, matchFilter.field)) =>
        matchResult = (matchFilter.operator # "exists")

C20_Witness ==
    /\ MatchDone
    /\ ~matchEntry.hasFields
    /\ matchFilter = [field |-> <<"host">>, operator |-> "equals",
                      value |-> StrV(<<"db">>), negate |-> FALSE]
    /\ matchResult

SearchMembers == {"text", "filters", "timeRange"}

\* C21: search never raises to its caller and leaves the content of the
\* index as it is; handed a query that lacks a member it reads (the time
\* range, the filters, a text that is a string), it returns no entries and
\* total 0.
C21_SearchCatches ==
    [][indexPc' \in {"search", "searchCaught"} =>
          /\ ~rejected'
          /\ entries' = entries
          /\ miniSearch' = miniSearch
          /\ fieldStats' = fieldStats
          /\ (SearchMembers \ DOMAIN searchQuery' # {}) =>
                (searchResult'.entries = <<>> /\ searchResult'.total = 0)]_vars

\* A query without a time range, on an index that holds records
C21_Witness ==
    /\ indexPc = "searchCaught"
    /\ Len(entries) = 2
    /\ searchQuery = [text |-> <<"Disk">>, filters |-> <<>>]
    /\ searchResult = [entries |-> <<>>, total |-> 0]
    /\ ~rejected

\* A query whose text is a number
C21_TextWitness ==
    /\ indexPc = "searchCaught"
    /\ entries # <<>>
    /\ "textNumber" \in DOMAIN searchQuery
    /\ searchResult.total = 0

\* The fields some stored record has a value for
FieldsHeld ==
    {fld \in StandardFields \cup UNION {CustomKeys(entries[i]) : i \in 1..Len(entries)} :
        ValuesIn(entries, fld) # {}}

\* C23: after any sequence of addEntries calls, getFieldSuggestions holds for
\* every field with a value on some added record one suggestion, whose
\* cardinality is the number of distinct values of the field over all the
\* records added by all the calls.
C23_CardinalityOverAllCalls ==
    (indexPc = "addEntries" /\ ~rejected) =>
        \A fld \in FieldsHeld :
            /\ Cardinality({s \in getFieldSuggestions : s.field = fld}) = 1
            /\ \A s \in getFieldSuggestions :
                  s.field = fld => s.cardinality = Cardinality(ValuesIn(entries, fld))

\* C24: once removeEntries has been handed ids of stored records, getEntry
\* finds none of them and no later search, with or without text, returns a
\* record of one of these ids.
C24_RemovedAreGone ==
    \A id \in removedIds :
        /\ getEntry(entries, id) = {}
        /\ indexPc \in {"search", "searchCaught"} => id \notin ResultIds

\* C25: after any sequence of parses, each followed by addEntries, no two
\* records were given the same id: no addEntries was turned down or put a
\* record in the place of another, and the index holds as many records, under
\* as many ids, as it was handed.
C25_IdsUnique ==
    indexPc = "addEntries" =>
        /\ ~rejected
        /\ Len(entries) = handed
        /\ Cardinality({entries[i].id : i \in 1..Len(entries)}) = handed

\* A search with a text that is not blank
TextSearched == Searched /\ Trim(searchQuery.text) # <<>>

\* The ids of the stored records within the time range that pass the filters
CandidateIds ==
    {id \in InRangeIds : matchesFilters(entries[PositionOf(id)], searchQuery.filters)}

FuzzySet == "fuzzy" \in DOMAIN searchQuery /\ searchQuery.fuzzy

\* b is a with one character replaced; b is a with one character put in
Replaced(a, b) == Len(a) = Len(b) /\ Cardinality({i \in 1..Len(a) : a[i] # b[i]}) = 1
PutIn(a, b) ==
    /\ Len(b) = Len(a) + 1
    /\ \E k \in 1..Len(b) : a = SubSeq(b, 1, k - 1) \o SubSeq(b, k + 1, Len(b))
OneEdit(a, b) == Replaced(a, b) \/ PutIn(a, b) \/ PutIn(b, a)

\* The words of the message of a record, in lower case
MessageWords(e) == TermSet(e.message)

C22_PartWitness ==
    /\ TextSearched
    /\ searchQuery.text = <<"isk">>
    /\ searchQuery.timeRange = [from |-> 0, to |-> 3]
    /\ searchQuery.filters = <<>>
    /\ Len(entries) = 1
    /\ entries[1].message = <<"Disk", " ", "full">>
    /\ ResultIds = {}

\* Dis, the beginning of Disk, is matched with fuzzy unset
C22_PrefixWitness ==
    /\ TextSearched
    /\ searchQuery.text = <<"Dis">>
    /\ ~FuzzySet
    /\ searchQuery.timeRange = [from |-> 0, to |-> 3]
    /\ Len(entries) = 1
    /\ entries[1].message = <<"Disk", " ", "full">>
    /\ ResultIds = {1}

-----------------------------------------------------------------------------
(* Properties of ParserWorker *)

WorkerDone == workerPc \in {"resolved", "rejected"}

\* What parseLine does with line i of the file
WorkerLine(i) == parseLine(options, Split(inFile.text)[i], inFile.name, i)

\* C26: parseFile of the worker resolves for every file and every chunking;
\* a line parseLine throws on is recorded as an error under its line number
\* and the record of every other line is returned.
C26_BadLineNeverRejects ==
    WorkerDone =>
        /\ workerPc = "resolved"
        /\ \A i \in 1..Len(Split(inFile.text)) :
              /\ (Trim(Split(inFile.text)[i]) # <<>> /\ WorkerLine(i).kind = "throw") =>
                    \E k \in 1..Len(workerLog.errors) : workerLog.errors[k].line = i
              /\ (Trim(Split(inFile.text)[i]) # <<>> /\ WorkerLine(i).kind = "entry") =>
                    \E k \in 1..Len(workerLog.entries) : workerLog.entries[k].lineNumber = i

-----------------------------------------------------------------------------
(* Properties of FileLoader *)

\* C29: isIndexing is set as long as a run of processFiles or loadDemoData
\* is in flight.
C29_IndexingWhileInFlight ==
    (\E r \in 1..Len(loads) : InFlight(loads[r])) => isIndexing

-----------------------------------------------------------------------------
(* Properties of Discover *)

\* C30: for a query with a text or filters, once a result is stored and
\* isSearching is back to false, the effect sets no further timeout as long
\* as the query is the one it last ran for.
C30_NoSearchAfterResult ==
    [][~(/\ effectDeps' # effectDeps
         /\ timer'
         /\ ~BlankQuery(viewQuery)
         /\ effectDeps.query = viewQuery
         /\ storedResults.id # 0
         /\ ~isSearching)]_vars

-----------------------------------------------------------------------------
(* Properties of the parser *)

Blank(line) == \A i \in 1..Len(line) : line[i] \in Whitespace

LineDone == pc = "done" /\ op = "parseLine"
FileDone == pc = "done" /\ op = "parseFile"

\* The direct parseLine call classified its line as structured.
Structured == options.enableJsonDetection /\ looksLikeJson(inLine)

\* The payload of a structured line, as decoded
Payload == JSONparse(inLine).value

LevelKeys == <<"level", "severity", "priority", "loglevel">>
TimestampKeys == <<"@timestamp", "timestamp", "ts", "time", "datetime">>
MessageKeys == <<"message", "msg", "text", "content", "description">>

TruthyLevelKeys == {i \in 1..4 : Truthy(Field(Payload, LevelKeys[i]))}
TruthyTimestampKeys == {i \in 1..5 : Truthy(Field(Payload, TimestampKeys[i]))}
StringMessageKeys == {i \in 1..5 : /\ Truthy(Field(Payload, MessageKeys[i]))
                                   /\ Field(Payload, MessageKeys[i]).t = "str"}

\* The structured line decodes and its level can be read.
Decodes ==
    /\ JSONparse(inLine).ok
    /\ TruthyLevelKeys # {} =>
          Field(Payload, LevelKeys[Leftmost(TruthyLevelKeys)]).t = "str"

InLines == Split(inFile.text)
LineNumbers == 1..Len(InLines)

\* Line i looks structured and fails to decode.
Undecodable(i) == looksLikeJson(InLines[i]) /\ ~JSONparse(Trim(InLines[i])).ok

ErrorsAt(i) == {k \in 1..Len(fileResult.errors) : fileResult.errors[k].line = i}
EntriesAt(i) == {k \in 1..Len(fileResult.entries) : fileResult.entries[k].lineNumber = i}

\* Line i, parsed on its own, raises.
Raises(i) ==
    /\ ~Blank(InLines[i])
    /\ parseLine(options, Trim(InLines[i]), FileName, i).kind = "throw"

RaisedBefore(i) == Cardinality({j \in 1..(i - 1) : Raises(j)})

\* The cap addError applies
CapInForce == IF options.maxErrors # 0 THEN options.maxErrors ELSE FallbackMaxErrors

OneErrorFor(i) ==
    /\ Cardinality(ErrorsAt(i)) = 1
    /\ \A k \in ErrorsAt(i) : fileResult.errors[k].content = Trim(InLines[i])

C3_ErrorsWithinCap ==
    FileDone =>
        /\ Len(fileResult.errors) <= options.maxErrors
        /\ inFile.readable =>
              (\A i \in LineNumbers :
                  (~Blank(InLines[i]) /\ ~Raises(i)) => Cardinality(EntriesAt(i)) = 1)

\* How many line feeds the text of the file holds
LineFeeds == Cardinality({i \in 1..Len(inFile.text) : inFile.text[i] = "\n"})

\* C28: for a readable file the result of parseFile accounts for every line
\* once: totalLines is the number of lines separated by line feeds, a blank
\* line gives nothing, a line that is not blank gives one record or, while
\* the error list is under its cap, one ParseError, never both, and the
\* records come in line order, each with the 1-based number of its line.
C28_EveryLineAccountedOnce ==
    (FileDone /\ inFile.readable) =>
        /\ fileResult.totalLines = LineFeeds + 1
        /\ Len(InLines) = LineFeeds + 1
        /\ \A k \in 1..Len(fileResult.entries) :
              fileResult.entries[k].lineNumber \in LineNumbers
        /\ \A k \in 1..Len(fileResult.errors) : fileResult.errors[k].line \in LineNumbers
        /\ \A i \in LineNumbers :
              IF Blank(InLines[i]) THEN EntriesAt(i) = {} /\ ErrorsAt(i) = {}
              ELSE /\ Cardinality(EntriesAt(i)) + Cardinality(ErrorsAt(i)) <= 1
                   /\ Len(fileResult.errors) < options.maxErrors =>
                         Cardinality(EntriesAt(i)) + Cardinality(ErrorsAt(i)) = 1
        /\ \A k, m \in 1..Len(fileResult.entries) :
              k < m => fileResult.entries[k].lineNumber < fileResult.entries[m].lineNumber

C28_Witness ==
    /\ FileDone /\ inFile.readable
    /\ Len(InLines) = 2
    /\ Blank(InLines[1])
    /\ fileResult.totalLines = 2
    /\ Len(fileResult.entries) = 1
    /\ fileResult.entries[1].lineNumber = 2
    /\ fileResult.errors = <<>>

\* A line that gives an error and a line that gives a record, in one file
C28_ErrorWitness ==
    /\ FileDone /\ inFile.readable
    /\ Len(InLines) = 2
    /\ ErrorsAt(1) # {} /\ EntriesAt(1) = {}
    /\ EntriesAt(2) # {} /\ ErrorsAt(2) = {}

\* C4: normalizeLogLevel is total and idempotent: every string maps to one
\* of the six levels, a string that is not a level token in any letter case
\* maps to INFO, and normalizing the result again changes nothing.
C4_NormalizeTotalIdempotent ==
    (pc = "done" /\ op = "normalize") =>
        /\ levelOut \in {"TRACE", "DEBUG", "INFO", "WARN", "ERROR", "FATAL"}
        /\ ToUpperCase(inLevel) \notin
              {<<"TRACE">>, <<"DEBUG">>, <<"INFO">>, <<"WARN">>, <<"WARNING">>,
               <<"ERROR">>, <<"FATAL">>} => levelOut = "INFO"
        /\ normalizeLogLevel(<<levelOut>>) = levelOut

C4_Witness ==
    /\ pc = "done" /\ op = "normalize"
    /\ inLevel = <<"CRITICAL">> /\ levelOut = "INFO"

StructuredEntry ==
    LineDone /\ lineResult.kind = "entry" /\ lineResult.entry.hasFields

\* The text holds no level keyword, in any letter case.
NoLevelKeyword(text) ==
    \A i \in 1..Len(text) : KeywordsIn(text[i]) = {} /\ LevelPrefix(text[i]) = ""

ConsumedKeys ==
    (IF TruthyTimestampKeys # {}
     THEN {<<TimestampKeys[Leftmost(TruthyTimestampKeys)]>>} ELSE {})
    \cup (IF TruthyLevelKeys # {} THEN {<<LevelKeys[Leftmost(TruthyLevelKeys)]>>} ELSE {})
    \cup (IF StringMessageKeys # {}
          THEN {<<MessageKeys[Leftmost(StringMessageKeys)]>>} ELSE {})

\* C6 as stated: the fields of a structured record are the payload's keys
\* minus the keys consumed as its timestamp, level and message: a consumed
\* key is never in fields, a key that was not consumed always is.
C6_FieldsAreUnconsumedKeys ==
    StructuredEntry =>
        /\ Keys(lineResult.entry.fields) \subseteq Keys(Payload)
        /\ \A k \in ConsumedKeys : k \notin Keys(lineResult.entry.fields)
        /\ \A k \in Keys(Payload) \ ConsumedKeys :
              Truthy(Get(Payload, k)) => k \in Keys(lineResult.entry.fields)

FreeTextEntry ==
    LineDone /\ lineResult.kind = "entry" /\ ~lineResult.entry.hasFields

\* The ISO-8601 timestamp that starts at atom i of the line
IsoAt(i) == SubSeq(inLine, i, i + TsLen(Drop(inLine, i - 1), Zones) - 1)

\* C7 as stated: the record of a free-text line that contains a well-formed
\* ISO-8601 timestamp, wherever it occurs, has that timestamp's instant.
C7_TimestampFoundAnywhere ==
    FreeTextEntry =>
        \A i \in 1..Len(inLine) :
            (/\ inLine[i] \in DateTimes
             /\ \A j \in 1..Len(inLine) : inLine[j] \in DateTimes => j = i)
            => lineResult.entry.timestamp = DateParse(IsoAt(i))

\* v seconds when v < 10^12, v milliseconds otherwise
EpochInstant(v) == IF v < EpochMsThreshold THEN v * 1000 ELSE v

\* C8 as stated: an epoch value, numeric in a structured record or a leading
\* run of 10 to 13 digits in a text line, gives the record that instant.
C8_EpochSecondsOrMillis ==
    /\ (StructuredEntry /\ TruthyTimestampKeys # {}) =>
          LET v == Field(Payload, TimestampKeys[Leftmost(TruthyTimestampKeys)])
          IN v.t = "num" => lineResult.entry.timestamp = EpochInstant(v.n)
    /\ (/\ FreeTextEntry /\ Len(inLine) > 0
        /\ inLine[1] \in NumLits /\ DigitCount(inLine[1]) \in 10..13)
          => lineResult.entry.timestamp = EpochInstant(NumVal(inLine[1]))

\* C9 as stated: the raw of every record of a batch parse is, character for
\* character, the line of the input it was parsed from.
C9_RawIsTheLine ==
    (FileDone /\ inFile.readable) =>
        \A k \in 1..Len(fileResult.entries) :
            fileResult.entries[k].raw = InLines[fileResult.entries[k].lineNumber]

====
